---- MODULE Spec2Model ----
(***************************************************************************)
(* A model of tiny-loop: the Agent loop (crates/tiny-loop/src/agent.rs),   *)
(* the two tool executors (tool/executor/parallel.rs, sequential.rs), the  *)
(* default history (history/infinite.rs) and the retry loop of the         *)
(* OpenAI-compatible provider (llm/openai.rs).                             *)
(*                                                                         *)
(* Spec     the Agent driven through system / chat / run / step, with the  *)
(*          provider behind the LLMProvider::call interface.               *)
(* LiveSpec Spec with the fairness of the async runtime: a pending LLM     *)
(*          call and a running tool invocation eventually complete.        *)
(* SpecLLM  OpenAIProvider::call: the attempts of one call, each attempt   *)
(*          one call_once against an HTTP answer of the endpoint.          *)
(* SpecExec ToolExecutor::execute on its own: one batch of tool calls      *)
(*          given to the parallel or to the sequential executor.           *)
(* SpecStream OpenAIProvider::handle_stream: the body of one streamed      *)
(*          answer, read chunk by chunk.                                   *)
(* SpecStreamCall OpenAIProvider::call with a stream callback: streamed    *)
(*          attempts, retried when they fail.                              *)
(* SpecHistory a History on its own: InfiniteHistory, or the bounded       *)
(*          CustomHistory of examples/history.rs.                          *)
(* SpecRegistry ToolExecutor::add on an executor as built.                 *)
(* SpecBuilder the builder methods of Agent, called in any order on        *)
(*          Agent::new(llm).                                               *)
(* SpecLib  the serialization of Message, the description #[tool] takes    *)
(*          from the doc comment, and truncate_text, each on one value.    *)
(***************************************************************************)
EXTENDS Integers, Sequences, FiniteSets, TLC

VARIABLES
    history,      \* Agent.history (InfiniteHistory.messages), without the timing metadata
    executor,     \* Agent.executor: "parallel" or "sequential"
    registry,     \* the executor's tools map, as the set of its keys
    op,           \* the API call in progress or last made: [name, arg], with the history and the
                  \* count of LLM calls it found: [before, llm]
    pc,           \* "idle", "llm" (step awaits llm.call), "exec" (step awaits execute), "panicked"
    ret,          \* the value the last finished API call returned
    response,     \* the LLMResponse of the step in progress
    exec,         \* the dispatch round in progress: [calls, status, out, order]
    steps,        \* the steps the current API call has finished, oldest first
    stepBase,     \* length of the history when the step in progress began
    llmTotal,     \* LLMProvider::call invocations issued so far
    max_retries,  \* OpenAIProvider.max_retries
    attempt,      \* the local `attempt` of OpenAIProvider::call
    lpc,          \* OpenAIProvider::call: "off", "ready", "attempt", "sleep", "returned", "panicked"
    lret,         \* the value OpenAIProvider::call returned
    trace,        \* what the attempts of the call met: [tries, first, allTransport, firstOk, delays, served]
    xpc,          \* ToolExecutor::execute on its own: "off", "ready", "running", "returned"
    xret,         \* the messages execute returned
    xlog,         \* the tool invocations execute made: their starts and ends, oldest first
    spc,          \* OpenAIProvider::handle_stream: "off", "reading", "returned", "failed"
    hs,           \* its locals: the buffer (the head of a line, the lines not yet taken), content,
                  \* tool_calls, finish_reason, and the fragments given to the callback
    sret,         \* the value handle_stream returned
    sent,         \* the chunks the transport has delivered, oldest first
    store,        \* a History on its own: [kind, max, messages]
    added,        \* the turns given to its add and add_batch, oldest first
    seen,         \* what its last get_all returned
    tools,        \* the tools map of an executor on its own: name -> tool instance
    addlog,       \* the calls of ToolExecutor::add made: [name, tool, returned], oldest first
    defs,         \* Agent.tools while the agent is built: the names advertised, in order
    builder,      \* the builder methods called on the agent, oldest first
    fn,           \* the library function applied last
    input,        \* the value it is applied to
    output        \* what it returned

agentVars == <<history, executor, registry, op, pc, ret, response, exec, steps, stepBase, llmTotal>>
llmVars == <<max_retries, attempt, lpc, lret, trace>>
execVars == <<xpc, xret, xlog>>
streamVars == <<spc, hs, sret, sent>>
histVars == <<store, added, seen>>
regVars == <<tools, addlog, defs, builder>>
pureVars == <<fn, input, output>>
libVars == <<histVars, regVars, pureVars>>
vars == <<history, executor, registry, op, pc, ret, response, exec, steps, stepBase, llmTotal,
          max_retries, attempt, lpc, lret, trace, xpc, xret, xlog, spc, hs, sret, sent,
          store, added, seen, tools, addlog, defs, builder, fn, input, output>>

----
\* Bounds of the model.

\* tool calls in one assistant turn
MaxCalls == 2
\* LLMProvider::call invocations in one behaviour
MaxLLM == 2
\* System turns in one history
MaxSystem == 1
\* largest max_retries an OpenAIProvider is configured with
MaxRetriesBound == 2
\* tool calls in one batch given to ToolExecutor::execute on its own
MaxExecCalls == 3
\* lines in the body of one streamed answer
MaxFrames == 3
\* pieces of lines in one chunk of the body
MaxPieces == 2
\* turns given to one History on its own
MaxTurns == 4
\* turns in one add_batch
MaxBatch == 2
\* largest capacity of a CustomHistory
MaxCapacity == 2
\* calls of ToolExecutor::add on one executor
MaxAdds == 5
\* builder methods called on one agent
MaxBuilderCalls == 3
\* definitions given to one call of Agent::external
MaxExternal == 2
\* attributes on one #[tool] function
MaxAttrs == 3
\* characters in the content given to truncate_text
MaxChars == 3
\* largest start and end given to truncate_text
MaxIndex == 4

----
\* The data model (types/message.rs, types/llm.rs).

ToolNames == {"weather", "search"}
\* The tools the builder chain registered: "search" is called but not
\* registered in the first, both tools are registered in the second.
Registries == {{"weather"}, {"weather", "search"}}
\* The agent never inspects the content of an answer: the n-th answer of the
\* endpoint carries a content of its own, so that answers can be told apart.
ContentOf(n) == "answer " \o ToString(n)
Prompts == {"2+2?"}
SystemPrompts == {"helper"}
\* The arguments strings an assistant turn carries: one that deserializes
\* into the tool's Args, one that is not JSON.
Arguments == {"{}", "{"}
\* serde_json::from_str::<Args>(&s) of the closure Agent::tool registers.
ParsesAsArgs(s) == s = "{}"
\* to_string() of the serde_json error for s.
ArgsError(s) == "EOF while parsing an object at line 1 column " \o ToString(Len(s))
\* What the registered tool functions return once called with their Args: the
\* weather tool answers, the search tool reports the failure of its body.
ToolBody == [weather |-> "sunny", search |-> "error: index unavailable"]
ToolOutputs == {ToolBody[n] : n \in DOMAIN ToolBody}
\* Stop, Length and ToolCalls; ContentFilter and the provider-specific reasons
\* (Custom) are handled as Length is: no code tells them apart.
FinishReasons == {"stop", "length", "tool_calls"}

None == [some |-> FALSE, calls |-> <<>>]
Some(cs) == [some |-> TRUE, calls |-> cs]

ToolCall(id, name, arguments) ==
    [id |-> id, call_type |-> "function",
     function |-> [name |-> name, arguments |-> arguments]]

SystemMessage(content) ==
    [role |-> "system", content |-> content, tool_calls |-> None, tool_call_id |-> ""]
UserMessage(content) ==
    [role |-> "user", content |-> content, tool_calls |-> None, tool_call_id |-> ""]
AssistantMessage(msg) ==
    [role |-> "assistant", content |-> msg.content, tool_calls |-> msg.tool_calls,
     tool_call_id |-> ""]
ToolMessage(tool_call_id, content) ==
    [role |-> "tool", content |-> content, tool_calls |-> None, tool_call_id |-> tool_call_id]

\* A Custom turn: the role and the body flattened next to it
\* (types/message.rs 38-46); the other turns have no body.
CustomMessage(role, body) ==
    [role |-> role, content |-> "", tool_calls |-> None, tool_call_id |-> "", body |-> body]
IsCustom(m) == "body" \in DOMAIN m

\* serde_json::to_string(&message): the JSON object, as the function from
\* its keys to their values.  The tag of the variant is written as "role";
\* tool_calls is skipped when it is Option::None (types/message.rs 25);
\* Custom is untagged and writes its role and the keys of its body.
ToWire(m) ==
    IF IsCustom(m)
    THEN [k \in {"role"} \cup DOMAIN m.body |-> IF k = "role" THEN m.role ELSE m.body[k]]
    ELSE IF m.role \in {"system", "user"} THEN [role |-> m.role, content |-> m.content]
    ELSE IF m.role = "assistant"
         THEN IF m.tool_calls.some
              THEN [role |-> m.role, content |-> m.content, tool_calls |-> m.tool_calls.calls]
              ELSE [role |-> m.role, content |-> m.content]
    ELSE [role |-> m.role, content |-> m.content, tool_call_id |-> m.tool_call_id]

\* The tagged variants of Message take the object: the variant "role" names
\* has the keys it requires (types/message.rs 49-59).
TaggedTakes(w) ==
    /\ "role" \in DOMAIN w
    /\ \/ w.role \in {"system", "user", "assistant"} /\ "content" \in DOMAIN w
       \/ w.role = "tool" /\ {"content", "tool_call_id"} \subseteq DOMAIN w

\* serde_json::from_str::<Message>: the tagged variants are tried first, keys
\* they do not know are ignored; when they fail the untagged Custom takes the
\* object, its role and the other keys as its body (types/message.rs 60-62).
FromWire(w) ==
    IF TaggedTakes(w)
    THEN IF w.role = "system" THEN SystemMessage(w.content)
         ELSE IF w.role = "user" THEN UserMessage(w.content)
         ELSE IF w.role = "assistant"
              THEN AssistantMessage([content |-> w.content,
                                     tool_calls |-> IF "tool_calls" \in DOMAIN w
                                                    THEN Some(w.tool_calls) ELSE None])
         ELSE ToolMessage(w.tool_call_id, w.content)
    ELSE IF "role" \in DOMAIN w
         THEN CustomMessage(w.role, [k \in DOMAIN w \ {"role"} |-> w[k]])
    ELSE [error |-> "data did not match any variant of untagged enum Message"]

\* What an assistant turn asks for in one call.
Requests == [name : ToolNames, arguments : Arguments]

\* The batches of at most n tool calls: ids are issued by the provider and
\* unique within the turn.
BatchesOf(n) ==
    UNION {{[i \in 1..k |-> ToolCall(ToString(i), f[i].name, f[i].arguments)]
               : f \in [1..k -> Requests]}
           : k \in 0..n}

\* The batches an assistant turn of the agent carries: malformed arguments
\* come, if at all, in the first call and for the weather tool.
Batches ==
    {b \in BatchesOf(MaxCalls) :
        \A i \in DOMAIN b :
            ~ParsesAsArgs(b[i].function.arguments) =>
                i = 1 /\ b[i].function.name = "weather"}

LLMResponses(n) ==
    [message : [content : {ContentOf(n)}, tool_calls : {None} \cup {Some(b) : b \in Batches}],
     finish_reason : FinishReasons]

AllResponses == UNION {LLMResponses(n) : n \in 1..MaxLLM}

NoResponse == [message |-> [content |-> "", tool_calls |-> None], finish_reason |-> ""]

----
\* The history store (history.rs, history/infinite.rs).

\* Mutant of HistoryAdd: the turn is put in front.
HistoryAdd_InFront(h, message) == <<message>> \o h

HistoryAdd(h, message) == Append(h, message)

RECURSIVE HistoryAddBatch(_, _)
HistoryAddBatch(h, messages) ==
    IF messages = <<>> THEN h
    ELSE HistoryAddBatch(HistoryAdd(h, Head(messages)), Tail(messages))

----
\* The tool executors (tool/executor/parallel.rs, sequential.rs, tool.rs).

\* Mutant of NotFoundContent: the name is not quoted.
NotFoundContent_Bare(name) == "Tool " \o name \o " not found"

NotFoundContent(name) == "Tool '" \o name \o "' not found"

NoExec == [calls |-> <<>>, status |-> <<>>, out |-> <<>>, order |-> <<>>]

GroupNames(calls) == {calls[i].function.name : i \in DOMAIN calls}

\* The orders in which HashMap::into_iter can yield the groups.
GroupOrders(calls) ==
    LET names == GroupNames(calls)
        n == Cardinality(names)
    IN {s \in [1..n -> names] : \A i, j \in 1..n : s[i] = s[j] => i = j}

\* The positions of the calls of one group, in the order they were pushed.
GroupIndices(calls, name) ==
    SelectSeq([i \in 1..Len(calls) |-> i], LAMBDA i : calls[i].function.name = name)

\* Mutant of GroupResults: one message per group, for its first call only.
GroupResults_OnePerGroup(calls, name, out) ==
    LET idx == GroupIndices(calls, name)
    IN <<ToolMessage(calls[idx[1]].id, out[idx[1]])>>

\* Mutant of GroupResults: the messages of a group in the reverse order.
GroupResults_LastFirst(calls, name, out) ==
    LET idx == GroupIndices(calls, name)
    IN [k \in 1..Len(idx) |-> ToolMessage(calls[idx[Len(idx) + 1 - k]].id,
                                          out[idx[Len(idx) + 1 - k]])]

\* Tool::call_batch (default) and the not-found arm: one message per call of the group.
GroupResults(calls, name, out) ==
    LET idx == GroupIndices(calls, name)
    IN [k \in 1..Len(idx) |-> ToolMessage(calls[idx[k]].id, out[idx[k]])]

RECURSIVE Flatten(_, _, _)
Flatten(calls, out, order) ==
    IF order = <<>> THEN <<>>
    ELSE GroupResults(calls, Head(order), out) \o Flatten(calls, out, Tail(order))

\* Mutant of ParallelResults: only the first group's messages are returned.
ParallelResults_FirstGroup(es) ==
    IF es.order = <<>> THEN <<>> ELSE GroupResults(es.calls, es.order[1], es.out)

ParallelResults(es) == Flatten(es.calls, es.out, es.order)

\* Mutant of SequentialResults: the messages come back last call first.
SequentialResults_Reversed(es) ==
    [i \in 1..Len(es.calls) |->
        ToolMessage(es.calls[Len(es.calls) + 1 - i].id, es.out[Len(es.calls) + 1 - i])]

SequentialResults(es) ==
    [i \in 1..Len(es.calls) |-> ToolMessage(es.calls[i].id, es.out[i])]

\* A call that is answered without a suspension: its tool is not registered
\* (parallel.rs 70-79, sequential.rs 63-68), or the closure of Agent::tool
\* returns the error of the deserialization (agent.rs 112-115).
AnsweredAtOnce(call, reg) ==
    call.function.name \notin reg \/ ~ParsesAsArgs(call.function.arguments)

\* Mutant of ContentAtOnce: the reason is lost, the result is blank.
ContentAtOnce_Blank(call, reg) == ""

ContentAtOnce(call, reg) ==
    IF call.function.name \notin reg THEN NotFoundContent(call.function.name)
    ELSE ArgsError(call.function.arguments)

\* Mutant of ParallelStart: only the first group is polled.
ParallelStart_FirstGroup(calls, reg, order) ==
    [calls |-> calls,
     status |-> [i \in 1..Len(calls) |->
                    IF calls[i].function.name # order[1] THEN "pending"
                    ELSE IF AnsweredAtOnce(calls[i], reg) THEN "done" ELSE "running"],
     out |-> [i \in 1..Len(calls) |->
                    IF calls[i].function.name = order[1] /\ AnsweredAtOnce(calls[i], reg)
                    THEN ContentAtOnce(calls[i], reg) ELSE ""],
     order |-> order]

\* ParallelExecutor::execute up to its first suspension: every group is
\* polled, the tool functions that were entered are in progress, the other
\* calls are answered.
ParallelStart(calls, reg, order) ==
    [calls |-> calls,
     status |-> [i \in 1..Len(calls) |->
                    IF AnsweredAtOnce(calls[i], reg) THEN "done" ELSE "running"],
     out |-> [i \in 1..Len(calls) |->
                    IF AnsweredAtOnce(calls[i], reg) THEN ContentAtOnce(calls[i], reg) ELSE ""],
     order |-> order]

\* SequentialExecutor::execute from the first call not yet made up to its
\* next suspension.
RECURSIVE SequentialAdvance(_, _)
SequentialAdvance(es, reg) ==
    LET pending == {i \in 1..Len(es.calls) : es.status[i] = "pending"}
    IN IF pending = {} THEN es
       ELSE LET i == CHOOSE k \in pending : \A j \in pending : k <= j
            IN IF ~AnsweredAtOnce(es.calls[i], reg)
               THEN [es EXCEPT !.status[i] = "running"]
               ELSE SequentialAdvance(
                        [es EXCEPT !.status[i] = "done",
                                   !.out[i] = ContentAtOnce(es.calls[i], reg)], reg)

\* Mutant of SequentialStart: every call is entered at once.
SequentialStart_AllAtOnce(calls, reg) == ParallelStart(calls, reg, <<>>)

\* Mutant of SequentialStart: the first call is left out.
SequentialStart_SkipsFirst(calls, reg) ==
    SequentialAdvance([calls |-> calls,
                       status |-> [i \in 1..Len(calls) |-> IF i = 1 THEN "done" ELSE "pending"],
                       out |-> [i \in 1..Len(calls) |-> ""],
                       order |-> <<>>], reg)

SequentialStart(calls, reg) ==
    SequentialAdvance([calls |-> calls,
                       status |-> [i \in 1..Len(calls) |-> "pending"],
                       out |-> [i \in 1..Len(calls) |-> ""],
                       order |-> <<>>], reg)

ExecuteStart(kind, calls, reg, order) ==
    IF kind = "parallel" THEN ParallelStart(calls, reg, order)
    ELSE SequentialStart(calls, reg)

ExecuteResults(kind, es) ==
    IF kind = "parallel" THEN ParallelResults(es) ELSE SequentialResults(es)

\* Mutant of AllDone: execute returns as soon as one call is answered.
AllDone_AnyDone(es) == \E i \in 1..Len(es.calls) : es.status[i] = "done"

AllDone(es) == \A i \in 1..Len(es.calls) : es.status[i] = "done"

OrdersFor(kind, calls) == IF kind = "parallel" THEN GroupOrders(calls) ELSE {<<>>}

----
\* The Agent (agent.rs).

LLMErrors == {"API error (500)"}

Unset == [kind |-> "unset", content |-> ""]
OkNone == [kind |-> "none", content |-> ""]
OkSome(content) == [kind |-> "some", content |-> content]
Err(e) == [kind |-> "err", content |-> e]

\* Mutant of WithAssistant: the message is added twice.
WithAssistant_Twice(h, msg) ==
    HistoryAdd(HistoryAdd(h, AssistantMessage(msg)), AssistantMessage(msg))

\* agent.rs 286-290: the response's message is added to the history.
WithAssistant(h, msg) == HistoryAdd(h, AssistantMessage(msg))

\* Mutant of WithToolResults: the results go in front of the assistant turn.
WithToolResults_BeforeAssistant(h, results) ==
    Append(HistoryAddBatch(SubSeq(h, 1, Len(h) - 1), results), h[Len(h)])

\* agent.rs 296-305: the results of execute are added in the order returned.
WithToolResults(h, results) == HistoryAddBatch(h, results)

\* Mutant of ShouldDispatch: tools run only for a ToolCalls finish reason.
ShouldDispatch_OnToolCallsFinish(r) ==
    r.message.tool_calls.some /\ r.finish_reason = "tool_calls"

\* agent.rs 293: `if let Some(calls) = &response.message.tool_calls`.
ShouldDispatch(r) == r.message.tool_calls.some

\* Mutant of StepReturn: the step is done when the message carries no tool calls.
StepReturn_ByToolCalls(r) ==
    IF ~r.message.tool_calls.some THEN OkSome(r.message.content) ELSE OkNone

\* agent.rs 308-320: the value of a step whose LLM call succeeded.
StepReturn(r) ==
    IF r.finish_reason # "tool_calls" THEN OkSome(r.message.content) ELSE OkNone

\* Mutant of RunContinues: run goes on whatever the step returned.
RunContinues_Always(res) == TRUE

\* agent.rs 327-331: run loops while step returns Ok(None).
RunContinues(res) == res.kind = "none"

StepRecord(base, h, r, res, dispatched) ==
    [base |-> base, after |-> Len(h), response |-> r, result |-> res,
     dispatched |-> dispatched]

\* The step begins: it reads the history and awaits LLMProvider::call (agent.rs 276-283).
BeginStep(h) ==
    /\ pc' = "llm"
    /\ stepBase' = Len(h)
    /\ llmTotal' = llmTotal + 1
    /\ response' = NoResponse
    /\ exec' = NoExec

\* The step whose LLM call returned r ends with history h; run and chat go
\* on with the next step when it returned Ok(None) (agent.rs 308-331).
FinishStep(h, r, dispatched) ==
    LET res == StepReturn(r)
    IN /\ history' = h
       /\ steps' = Append(steps, StepRecord(stepBase, h, r, res, dispatched))
       /\ op' = op
       /\ IF op.name # "step" /\ RunContinues(res)
          THEN /\ BeginStep(h)
               /\ ret' = ret
          ELSE /\ pc' = "idle"
               /\ ret' = res
               /\ response' = NoResponse
               /\ exec' = NoExec
               /\ UNCHANGED <<stepBase, llmTotal>>

SystemTurns(h) == Cardinality({i \in 1..Len(h) : h[i].role = "system"})

\* Agent::system (agent.rs 51-61).
System(content) ==
    /\ pc = "idle"
    /\ SystemTurns(history) < MaxSystem
    /\ history' = HistoryAdd(history, SystemMessage(content))
    /\ op' = [name |-> "system", arg |-> content, before |-> history, llm |-> llmTotal]
    /\ ret' = Unset
    /\ steps' = <<>>
    /\ UNCHANGED <<executor, registry, pc, response, exec, stepBase, llmTotal>>
    /\ UNCHANGED <<llmVars, execVars, streamVars, libVars>>

\* Agent::step (agent.rs 273-283), up to the await of the LLM call.
Step ==
    /\ pc = "idle"
    /\ llmTotal < MaxLLM
    /\ op' = [name |-> "step", arg |-> "", before |-> history, llm |-> llmTotal]
    /\ ret' = Unset
    /\ steps' = <<>>
    /\ BeginStep(history)
    /\ UNCHANGED <<history, executor, registry>>
    /\ UNCHANGED <<llmVars, execVars, streamVars, libVars>>

\* Agent::run (agent.rs 325-332), up to the await of the first LLM call.
Run ==
    /\ pc = "idle"
    /\ llmTotal < MaxLLM
    /\ op' = [name |-> "run", arg |-> "", before |-> history, llm |-> llmTotal]
    /\ ret' = Unset
    /\ steps' = <<>>
    /\ BeginStep(history)
    /\ UNCHANGED <<history, executor, registry>>
    /\ UNCHANGED <<llmVars, execVars, streamVars, libVars>>

\* Mutant of ChatTurn: the prompt is added as a system turn.
ChatTurn_AsSystem(prompt) == SystemMessage(prompt)

\* The turn Agent::chat adds for its prompt (agent.rs 339-343).
ChatTurn(prompt) == UserMessage(prompt)

\* Agent::chat (agent.rs 336-345), up to the await of the first LLM call.
Chat(prompt) ==
    /\ pc = "idle"
    /\ llmTotal < MaxLLM
    /\ history' = HistoryAdd(history, ChatTurn(prompt))
    /\ op' = [name |-> "chat", arg |-> prompt, before |-> history, llm |-> llmTotal]
    /\ ret' = Unset
    /\ steps' = <<>>
    /\ BeginStep(history')
    /\ UNCHANGED <<executor, registry>>
    /\ UNCHANGED <<llmVars, execVars, streamVars, libVars>>

\* The responses the endpoint may give to the call in progress: within one
\* run it answers with a finish reason other than ToolCalls once no further
\* call is left in the behaviour.
ResponsesNow ==
    {r \in LLMResponses(llmTotal) :
        (op.name # "step" /\ r.finish_reason = "tool_calls") => llmTotal < MaxLLM}

\* The LLM call of the step returns Ok(r): the assistant turn is added and,
\* when the message carries tool calls, execute runs up to its first
\* suspension (agent.rs 283-306).
LLMReturn(r, order) ==
    /\ pc = "llm"
    /\ r \in ResponsesNow
    /\ LET h1 == WithAssistant(history, r.message)
       IN IF ShouldDispatch(r)
          THEN /\ order \in OrdersFor(executor, r.message.tool_calls.calls)
               /\ LET es == ExecuteStart(executor, r.message.tool_calls.calls, registry, order)
                  IN IF AllDone(es)
                     THEN FinishStep(WithToolResults(h1, ExecuteResults(executor, es)), r, TRUE)
                     ELSE /\ history' = h1
                          /\ pc' = "exec"
                          /\ response' = r
                          /\ exec' = es
                          /\ UNCHANGED <<op, ret, steps, stepBase, llmTotal>>
          ELSE /\ order = <<>>
               /\ FinishStep(h1, r, FALSE)
    /\ UNCHANGED <<executor, registry>>
    /\ UNCHANGED <<llmVars, execVars, streamVars, libVars>>

\* Mutant of LLMFail: an empty assistant turn is added for the failed call.
LLMFail_AddsTurn(e) ==
    /\ pc = "llm"
    /\ pc' = "idle"
    /\ ret' = Err(e)
    /\ history' = HistoryAdd(history, AssistantMessage(NoResponse.message))
    /\ steps' = Append(steps, StepRecord(stepBase, history', NoResponse, Err(e), FALSE))
    /\ UNCHANGED <<executor, registry, op, response, exec, stepBase, llmTotal>>
    /\ UNCHANGED <<llmVars, execVars, streamVars, libVars>>

\* The LLM call of the step returns Err(e): `?` returns it from step, and
\* from run and chat (agent.rs 283, 328, 344).
LLMFail(e) ==
    /\ pc = "llm"
    /\ pc' = "idle"
    /\ ret' = Err(e)
    /\ steps' = Append(steps, StepRecord(stepBase, history, NoResponse, Err(e), FALSE))
    /\ UNCHANGED <<history, executor, registry, op, response, exec, stepBase, llmTotal>>
    /\ UNCHANGED <<llmVars, execVars, streamVars, libVars>>

\* The LLM call of the step panics (openai.rs 336 on an empty `choices`).
LLMPanic ==
    /\ pc = "llm"
    /\ pc' = "panicked"
    /\ UNCHANGED <<history, executor, registry, op, ret, response, exec, steps, stepBase, llmTotal>>
    /\ UNCHANGED <<llmVars, execVars, streamVars, libVars>>

\* A running tool invocation returns content; the executor goes on to its
\* next suspension, or returns, and then the step ends (tool.rs 52-65,
\* sequential.rs 56-71, parallel.rs 82-84, agent.rs 295-320).
ToolFinish(i, content) ==
    /\ pc = "exec"
    /\ i \in 1..Len(exec.calls)
    /\ exec.status[i] = "running"
    /\ content = ToolBody[exec.calls[i].function.name]
    /\ LET es1 == [exec EXCEPT !.status[i] = "done", !.out[i] = content]
           es2 == IF executor = "sequential" THEN SequentialAdvance(es1, registry) ELSE es1
       IN IF AllDone(es2)
          THEN FinishStep(WithToolResults(history, ExecuteResults(executor, es2)), response, TRUE)
          ELSE /\ exec' = es2
               /\ UNCHANGED <<history, op, pc, ret, response, steps, stepBase, llmTotal>>
    /\ UNCHANGED <<executor, registry>>
    /\ UNCHANGED <<llmVars, execVars, streamVars, libVars>>

\* The agent as built: Agent::new(llm), then .executor(..) and .tool(..) of
\* the builder chain (agent.rs 19-26, 77-80, 102-121).
AgentInit ==
    /\ history = <<>>
    /\ executor \in {"parallel", "sequential"}
    /\ registry \in Registries
    /\ op = [name |-> "none", arg |-> "", before |-> <<>>, llm |-> 0]
    /\ pc = "idle"
    /\ ret = Unset
    /\ response = NoResponse
    /\ exec = NoExec
    /\ steps = <<>>
    /\ stepBase = 0
    /\ llmTotal = 0

NoTrace ==
    [tries |-> 0, first |-> "", allTransport |-> TRUE, firstOk |-> 0, delays |-> 0,
     served |-> NoResponse]

NoError == [class |-> "", attempt |-> 0]
NotReturned == [kind |-> "unset", response |-> NoResponse, error |-> NoError]

LLMIdle ==
    /\ max_retries = 0
    /\ attempt = 0
    /\ lpc = "off"
    /\ lret = NotReturned
    /\ trace = NoTrace

\* handle_stream is not running: its locals hold nothing.
NoStream == [content |-> "", tool_calls |-> <<>>, finish_reason |-> "", callback |-> <<>>]

StreamIdle ==
    /\ spc = "off"
    /\ hs = NoStream
    /\ sret = NotReturned
    /\ sent = <<>>

ExecIdle ==
    /\ xpc = "off"
    /\ xret = <<>>
    /\ xlog = <<>>

\* No History is used on its own.
HistIdle ==
    /\ store = [kind |-> "none", max |-> 0, messages |-> <<>>]
    /\ added = <<>>
    /\ seen = <<>>

\* No tool instance.
NoTool == "none"

\* No executor is built on its own.
RegIdle ==
    /\ tools = [n \in ToolNames |-> NoTool]
    /\ addlog = <<>>
    /\ defs = <<>>
    /\ builder = <<>>

\* No library function is applied on its own.
PureIdle ==
    /\ fn = "off"
    /\ input = ""
    /\ output = ""

LibIdle == HistIdle /\ RegIdle /\ PureIdle

Init == AgentInit /\ LLMIdle /\ ExecIdle /\ StreamIdle /\ LibIdle

Next ==
    \/ \E c \in SystemPrompts : System(c)
    \/ Step
    \/ Run
    \/ \E p \in Prompts : Chat(p)
    \/ \E r \in AllResponses : \E order \in {<<>>} \cup GroupOrders(r.message.tool_calls.calls) :
           LLMReturn(r, order)
    \/ \E e \in LLMErrors : LLMFail(e)
    \/ LLMPanic
    \/ \E i \in 1..MaxCalls : \E c \in ToolOutputs : ToolFinish(i, c)

Spec == Init /\ [][Next]_vars

\* The runtime polls the future of a step until it is ready: a pending LLM
\* call gets its outcome and a running tool invocation returns.
LLMCompletes ==
    \/ LLMPanic
    \/ \E e \in LLMErrors : LLMFail(e)
    \/ \E r \in AllResponses : \E order \in {<<>>} \cup GroupOrders(r.message.tool_calls.calls) :
           LLMReturn(r, order)

ToolCompletes == \E i \in 1..MaxCalls : \E c \in ToolOutputs : ToolFinish(i, c)

LiveSpec == Init /\ [][Next]_vars /\ WF_vars(LLMCompletes) /\ WF_vars(ToolCompletes)

----
\* The provider (llm/openai.rs): OpenAIProvider::call and call_once without
\* a stream callback.

Statuses == {200, 429, 500}

\* A body that is no JSON, a JSON object without `choices`, and objects with
\* `choices`: empty, or one choice whose message has some role.
NotJson == [json |-> FALSE, has_choices |-> FALSE, choices |-> <<>>]
NoChoices == [json |-> TRUE, has_choices |-> FALSE, choices |-> <<>>]
WithChoices(cs) == [json |-> TRUE, has_choices |-> TRUE, choices |-> cs]

Choice(role, r) ==
    [message |-> [role |-> role, content |-> r.message.content,
                  tool_calls |-> r.message.tool_calls],
     finish_reason |-> r.finish_reason]

Bodies ==
    {NotJson, NoChoices, WithChoices(<<>>)}
    \cup {WithChoices(<<Choice("assistant", r)>>) : r \in AllResponses}
    \cup {WithChoices(<<Choice("user", r)>>) : r \in LLMResponses(1)}

\* What one request gets: no answer at all, or a status and a body.
HttpAnswers ==
    {[kind |-> "transport", status |-> 0, body |-> NotJson]}
    \cup {[kind |-> "http", status |-> 200, body |-> b] : b \in Bodies}
    \cup {[kind |-> "http", status |-> st, body |-> NotJson] : st \in Statuses \ {200}}

\* reqwest StatusCode::is_success.
IsSuccess(status) == status >= 200 /\ status < 300

OkResult(r) == [kind |-> "ok", response |-> r, error |-> NoError]
ErrResult(class, n) ==
    [kind |-> "err", response |-> NoResponse, error |-> [class |-> class, attempt |-> n]]
PanicResult == [kind |-> "panic", response |-> NoResponse, error |-> NoError]

\* call_once (openai.rs 310-344): the result of attempt n on answer a.
CallOnceResult(a, n) ==
    IF a.kind = "transport" THEN ErrResult("transport", n)
    ELSE IF ~IsSuccess(a.status) THEN ErrResult("status", n)
    ELSE IF ~a.body.json \/ ~a.body.has_choices THEN ErrResult("parse", n)
    ELSE IF a.body.choices = <<>> THEN PanicResult
    ELSE LET choice == a.body.choices[1]
         IN IF choice.message.role # "assistant" THEN ErrResult("role", n)
            ELSE OkResult([message |-> [content |-> choice.message.content,
                                        tool_calls |-> choice.message.tool_calls],
                           finish_reason |-> choice.finish_reason])

\* Mutant of RetriesExhausted: the budget counts attempts, not retries.
RetriesExhausted_CountsAttempts(n, retries) == n >= retries

\* openai.rs 275: `Err(e) if attempt > self.max_retries`.
RetriesExhausted(n, retries) == n > retries

\* Mutant of AfterAttempt: an answer that asks for tools without naming any
\* is taken for a failure and retried.
AfterAttempt_RetriesOddAnswer(result, n, retries) ==
    IF result.kind = "panic" THEN "panic"
    ELSE IF result.kind = "ok"
            /\ ~(result.response.finish_reason = "tool_calls"
                 /\ ~result.response.message.tool_calls.some)
    THEN "return"
    ELSE IF RetriesExhausted(n, retries) THEN "return"
    ELSE "sleep"

\* openai.rs 270-284: what call does with the result of attempt n.
AfterAttempt(result, n, retries) ==
    IF result.kind = "panic" THEN "panic"
    ELSE IF result.kind = "ok" THEN "return"
    ELSE IF RetriesExhausted(n, retries) THEN "return"
    ELSE "sleep"

\* How the answer of an attempt is classed: a failure of the transport or a
\* non-2xx status, a 2xx answer of a shape the client cannot use, or a
\* well-formed answer.
AnswerClass(a) ==
    IF a.kind = "transport" \/ ~IsSuccess(a.status) THEN "transport"
    ELSE IF ~a.body.json \/ ~a.body.has_choices \/ a.body.choices = <<>> THEN "protocol"
    ELSE IF a.body.choices[1].message.role # "assistant" THEN "protocol"
    ELSE "ok"

Served(a) ==
    IF AnswerClass(a) = "ok"
    THEN [message |-> [content |-> a.body.choices[1].message.content,
                       tool_calls |-> a.body.choices[1].message.tool_calls],
          finish_reason |-> a.body.choices[1].finish_reason]
    ELSE NoResponse

\* OpenAIProvider::call is entered (openai.rs 257).
Call ==
    /\ lpc \in {"ready", "returned"}
    /\ lpc' = "attempt"
    /\ attempt' = 0
    /\ lret' = NotReturned
    /\ trace' = NoTrace
    /\ UNCHANGED max_retries
    /\ UNCHANGED <<agentVars, execVars, streamVars, libVars>>

\* One turn of the loop of call: the attempt is counted, call_once runs on
\* the answer a, and call returns, panics or starts to sleep (openai.rs 258-284).
CallOnce(a) ==
    /\ lpc = "attempt"
    /\ LET n == attempt + 1
           result == CallOnceResult(a, n)
           next == AfterAttempt(result, n, max_retries)
       IN /\ attempt' = n
          /\ trace' = [tries |-> trace.tries + 1,
                       first |-> IF trace.tries = 0 THEN AnswerClass(a) ELSE trace.first,
                       allTransport |-> trace.allTransport /\ AnswerClass(a) = "transport",
                       firstOk |-> IF trace.firstOk = 0 /\ AnswerClass(a) = "ok"
                                   THEN trace.tries + 1 ELSE trace.firstOk,
                       delays |-> trace.delays,
                       served |-> Served(a)]
          /\ lpc' = IF next = "return" THEN "returned"
                    ELSE IF next = "panic" THEN "panicked" ELSE "sleep"
          /\ lret' = IF next = "return" THEN result ELSE lret
    /\ UNCHANGED max_retries
    /\ UNCHANGED <<agentVars, execVars, streamVars, libVars>>

\* tokio::time::sleep(retry_delay_ms) is over (openai.rs 281-282).
Sleep ==
    /\ lpc = "sleep"
    /\ lpc' = "attempt"
    /\ trace' = [trace EXCEPT !.delays = trace.delays + 1]
    /\ UNCHANGED <<max_retries, attempt, lret>>
    /\ UNCHANGED <<agentVars, execVars, streamVars, libVars>>

AgentOff ==
    /\ history = <<>>
    /\ executor = "parallel"
    /\ registry = {}
    /\ op = [name |-> "none", arg |-> "", before |-> <<>>, llm |-> 0]
    /\ pc = "off"
    /\ ret = Unset
    /\ response = NoResponse
    /\ exec = NoExec
    /\ steps = <<>>
    /\ stepBase = 0
    /\ llmTotal = 0

\* A provider as built: OpenAIProvider::new().max_retries(n) (openai.rs 106-117, 201-204).
InitLLM ==
    /\ AgentOff
    /\ ExecIdle
    /\ StreamIdle
    /\ LibIdle
    /\ max_retries \in 0..MaxRetriesBound
    /\ attempt = 0
    /\ lpc = "ready"
    /\ lret = NotReturned
    /\ trace = NoTrace

NextLLM ==
    \/ Call
    \/ \E a \in HttpAnswers : CallOnce(a)
    \/ Sleep

SpecLLM == InitLLM /\ [][NextLLM]_vars

----
\* OpenAIProvider::handle_stream (SpecStream): the body of one streamed
\* answer arrives chunk by chunk; a chunk is cut out of the bytes of the
\* body anywhere, inside a line and inside a character too.

\* The tool calls a frame can carry in delta.tool_calls: a call as a whole,
\* and the two fragments an endpoint sends for it when it streams the
\* arguments: the first with id, type and name, the next with the index only.
WholeCall ==
    [index |-> 0, named |-> TRUE, id |-> "call_1", name |-> "weather",
     arguments |-> "{\"a\":1}"]
FirstFragment ==
    [index |-> 0, named |-> TRUE, id |-> "call_1", name |-> "weather", arguments |-> "{\"a\""]
NextFragment ==
    [index |-> 0, named |-> FALSE, id |-> "", name |-> "", arguments |-> ":1}"]
CallDeltas == {WholeCall, FirstFragment, NextFragment}
NoDelta == [index |-> 0, named |-> FALSE, id |-> "", name |-> "", arguments |-> ""]

\* The content a frame can carry in delta.content; the second ends with a
\* character of two bytes, e acute, written here as its bytes.
ContentDeltas == {"Hi", "caf<C3 A9>"}
Multibyte(text) == text = "caf<C3 A9>"
\* String::from_utf8_lossy of the two chunks the text was cut into between
\* the two bytes of its last character: each half decodes to U+FFFD.
TornText(text) == "caf<FFFD><FFFD>"

\* The lines of a body.
ContentLine(text) == [kind |-> "content", text |-> text, call |-> NoDelta, reason |-> ""]
CallLine(d) == [kind |-> "call", text |-> "", call |-> d, reason |-> ""]
FinishLine(reason) == [kind |-> "finish", text |-> "", call |-> NoDelta, reason |-> reason]
DoneLine == [kind |-> "done", text |-> "", call |-> NoDelta, reason |-> ""]
\* `: keep-alive`, or the empty line between two events
CommentLine == [kind |-> "comment", text |-> "", call |-> NoDelta, reason |-> ""]
\* `data: {`
BadJsonLine == [kind |-> "badjson", text |-> "", call |-> NoDelta, reason |-> ""]

Lines ==
    {ContentLine(t) : t \in ContentDeltas} \cup {CallLine(d) : d \in CallDeltas}
    \cup {FinishLine("tool_calls"), FinishLine("length"), DoneLine, CommentLine, BadJsonLine}

\* A chunk is a sequence of pieces: a whole line with its newline, the head
\* of a line, or the tail the chunk before left over.  A piece is torn when
\* the cut lies between the two bytes of a character.
Piece(line, part, torn) == [line |-> line, part |-> part, torn |-> torn]
NoPending == [some |-> FALSE, line |-> CommentLine, torn |-> FALSE]
Pending(line, torn) == [some |-> TRUE, line |-> line, torn |-> torn]

\* The locals of handle_stream as it is entered (openai.rs 354-358).
StreamStart ==
    [pending |-> NoPending, queue |-> <<>>, content |-> "", tool_calls |-> <<>>,
     finish_reason |-> "stop", callback |-> <<>>]

\* openai.rs 367: line.strip_prefix("data: ").
HasDataPrefix(line) == line.kind # "comment"

\* openai.rs 372: serde_json::from_str::<StreamChunk>(data); a tool call of
\* the delta deserializes into ToolCall, whose id, type and function.name
\* are required (types/message.rs 96-114).
ParsesAsChunk(line) ==
    \/ line.kind \in {"content", "finish"}
    \/ line.kind = "call" /\ line.call.named

\* ProcessLine keeping the first finish reason a frame carried.
ProcessLine_KeepsFirstReason(h, line) ==
    IF ~HasDataPrefix(line) THEN h
    ELSE IF ~ParsesAsChunk(line) THEN h
    ELSE IF line.kind = "content"
         THEN [h EXCEPT !.content = h.content \o line.text,
                        !.callback = Append(h.callback, line.text)]
    ELSE IF line.kind = "call"
         THEN [h EXCEPT !.tool_calls =
                   Append(h.tool_calls,
                          ToolCall(line.call.id, line.call.name, line.call.arguments))]
    ELSE [h EXCEPT !.finish_reason = IF @ = "stop" THEN line.reason ELSE @]

\* ProcessLine giving the callback the text accumulated so far.
ProcessLine_Accumulated(h, line) ==
    IF ~HasDataPrefix(line) THEN h
    ELSE IF ~ParsesAsChunk(line) THEN h
    ELSE IF line.kind = "content"
         THEN [h EXCEPT !.content = h.content \o line.text,
                        !.callback = Append(h.callback, h.content \o line.text)]
    ELSE IF line.kind = "call"
         THEN [h EXCEPT !.tool_calls =
                   Append(h.tool_calls,
                          ToolCall(line.call.id, line.call.name, line.call.arguments))]
    ELSE [h EXCEPT !.finish_reason = line.reason]

\* openai.rs 367-388, for a line that is not `data: [DONE]`.
ProcessLine(h, line) ==
    IF ~HasDataPrefix(line) THEN h
    ELSE IF ~ParsesAsChunk(line) THEN h
    ELSE IF line.kind = "content"
         THEN [h EXCEPT !.content = h.content \o line.text,
                        !.callback = Append(h.callback, line.text)]
    ELSE IF line.kind = "call"
         THEN [h EXCEPT !.tool_calls =
                   Append(h.tool_calls,
                          ToolCall(line.call.id, line.call.name, line.call.arguments))]
    ELSE [h EXCEPT !.finish_reason = line.reason]

\* openai.rs 363-389: the lines of the buffer are taken one by one until
\* none is left or `data: [DONE]` is met, which breaks out of this loop.
RECURSIVE Drain(_)
Drain(h) ==
    IF h.queue = <<>> THEN h
    ELSE LET line == Head(h.queue)
             rest == [h EXCEPT !.queue = Tail(h.queue)]
         IN IF line.kind = "done" THEN rest
            ELSE Drain(ProcessLine(rest, line))

\* openai.rs 361: the chunk is decoded on its own and pushed to the buffer.
Decoded(h, piece) ==
    IF piece.part = "tail" /\ h.pending.torn /\ Multibyte(piece.line.text)
    THEN [piece.line EXCEPT !.text = TornText(piece.line.text)]
    ELSE piece.line

RECURSIVE PushChunk(_, _)
PushChunk(h, chunk) ==
    IF chunk = <<>> THEN h
    ELSE LET piece == Head(chunk)
         IN IF piece.part = "head"
            THEN PushChunk([h EXCEPT !.pending = Pending(piece.line, piece.torn)], Tail(chunk))
            ELSE PushChunk([h EXCEPT !.pending = NoPending,
                                     !.queue = Append(h.queue, Decoded(h, piece))],
                           Tail(chunk))

\* One turn of the outer loop (openai.rs 360-390).
OnChunk(h, chunk) == Drain(PushChunk(h, chunk))

\* openai.rs 393-403.
StreamResponse(h) ==
    [message |-> [content |-> h.content,
                  tool_calls |-> IF h.tool_calls = <<>> THEN None ELSE Some(h.tool_calls)],
     finish_reason |-> h.finish_reason]

\* handle_stream on a body that arrives as these chunks and then ends.
RECURSIVE Feed(_, _)
Feed(h, chunks) == IF chunks = <<>> THEN h ELSE Feed(OnChunk(h, Head(chunks)), Tail(chunks))

\* The lines a chunk boundary may fall into.
SplitLines == {ContentLine(t) : t \in ContentDeltas} \cup {DoneLine}

Pieces ==
    {Piece(l, "whole", FALSE) : l \in Lines}
    \cup {Piece(l, "head", FALSE) : l \in SplitLines}
    \cup {Piece(l, "head", TRUE) : l \in {x \in SplitLines : Multibyte(x.text)}}

\* The lines the chunks so far have begun.
RECURSIVE Started(_)
Started(chunks) ==
    IF chunks = <<>> THEN 0
    ELSE Cardinality({k \in 1..Len(Head(chunks)) : Head(chunks)[k].part # "tail"})
         + Started(Tail(chunks))

\* The chunk c can come next: the bytes go on where the chunk before
\* stopped, and only the last piece of a chunk can be the head of a line.
ComesNext(h, left, c) ==
    /\ IF h.pending.some
       THEN c[1] = Piece(h.pending.line, "tail", h.pending.torn)
       ELSE c[1] \in Pieces
    /\ \A k \in 2..Len(c) : c[k] \in Pieces
    /\ \A k \in 1..(Len(c) - 1) : c[k].part # "head"
    /\ Cardinality({k \in 1..Len(c) : c[k].part # "tail"}) <= left

\* stream.try_next() yields a chunk (openai.rs 360-390).
TryNextChunk(chunk) ==
    /\ spc = "reading"
    /\ ComesNext(hs, MaxFrames - Started(sent), chunk)
    /\ hs' = OnChunk(hs, chunk)
    /\ sent' = Append(sent, chunk)
    /\ UNCHANGED <<spc, sret>>
    /\ UNCHANGED <<agentVars, llmVars, execVars, libVars>>

\* stream.try_next() yields None: the body has ended and the response is
\* built from the accumulators (openai.rs 360, 392-403).
StreamEnd ==
    /\ spc = "reading"
    /\ spc' = "returned"
    /\ sret' = OkResult(StreamResponse(hs))
    /\ UNCHANGED <<hs, sent>>
    /\ UNCHANGED <<agentVars, llmVars, execVars, libVars>>

\* stream.try_next() yields an error, which `?` returns (openai.rs 360).
StreamError ==
    /\ spc = "reading"
    /\ spc' = "failed"
    /\ sret' = ErrResult("transport", 0)
    /\ UNCHANGED <<hs, sent>>
    /\ UNCHANGED <<agentVars, llmVars, execVars, libVars>>

\* handle_stream is entered with the response of a streamed request
\* (openai.rs 329-330, 354-358).
InitStream ==
    /\ AgentOff
    /\ LLMIdle
    /\ ExecIdle
    /\ spc = "reading"
    /\ hs = StreamStart
    /\ sret = NotReturned
    /\ sent = <<>>
    /\ LibIdle

NextStream ==
    \/ \E n \in 1..MaxPieces :
           \E chunk \in [1..n -> Pieces \cup {Piece(l, "tail", t) : l \in SplitLines,
                                                                   t \in BOOLEAN}] :
               TryNextChunk(chunk)
    \/ StreamEnd
    \/ StreamError

SpecStream == InitStream /\ [][NextStream]_vars

----
\* OpenAIProvider::call with a stream callback set (SpecStreamCall): every
\* attempt of the loop hands the provider's one callback to call_once
\* (openai.rs 260-268), which hands it to handle_stream (329-330).  Here
\* hs.callback holds what that callback was given since call was entered.

\* The lines of the bodies streamed here, each in a chunk of its own.
StreamedLines == {ContentLine("Hi"), FinishLine("length"), DoneLine, CommentLine}

\* The answers that make call_once return before it reaches handle_stream.
FailedAnswers == {a \in HttpAnswers : a.kind = "transport" \/ ~IsSuccess(a.status)}

\* An attempt whose request is answered with a 2xx status: handle_stream is
\* entered with new locals and the callback of the attempts before
\* (openai.rs 258-268, 308-330, 354-358).
AttemptStreams ==
    /\ lpc = "attempt"
    /\ attempt' = attempt + 1
    /\ lpc' = "streaming"
    /\ spc' = "reading"
    /\ hs' = [StreamStart EXCEPT !.callback = hs.callback]
    /\ sret' = NotReturned
    /\ sent' = <<>>
    /\ UNCHANGED <<max_retries, lret, trace>>
    /\ UNCHANGED <<agentVars, execVars, libVars>>

\* An attempt whose request fails or is answered with another status:
\* call_once returns the error, and call returns it or sleeps
\* (openai.rs 258-284, 308-326).
AttemptFails(a) ==
    /\ lpc = "attempt"
    /\ LET n == attempt + 1
           result == CallOnceResult(a, n)
       IN /\ attempt' = n
          /\ lpc' = IF AfterAttempt(result, n, max_retries) = "return" THEN "returned" ELSE "sleep"
          /\ lret' = IF AfterAttempt(result, n, max_retries) = "return" THEN result ELSE lret
    /\ UNCHANGED <<max_retries, trace>>
    /\ UNCHANGED <<agentVars, execVars, streamVars, libVars>>

\* handle_stream has returned to call_once and call_once to call, which
\* returns the result or sleeps (openai.rs 270-284, 329-330).
AfterStream ==
    /\ lpc = "streaming"
    /\ spc \in {"returned", "failed"}
    /\ LET result == IF sret.kind = "ok" THEN sret ELSE ErrResult("transport", attempt)
       IN /\ lpc' = IF AfterAttempt(result, attempt, max_retries) = "return"
                    THEN "returned" ELSE "sleep"
          /\ lret' = IF AfterAttempt(result, attempt, max_retries) = "return"
                     THEN result ELSE lret
    /\ spc' = "off"
    /\ UNCHANGED <<max_retries, attempt, trace, hs, sret, sent>>
    /\ UNCHANGED <<agentVars, execVars, libVars>>

\* call is entered on a provider built with stream_callback(..) and
\* max_retries(n) (openai.rs 201-204, 218-224, 257-258).
InitStreamCall ==
    /\ AgentOff
    /\ ExecIdle
    /\ StreamIdle
    /\ LibIdle
    /\ max_retries \in 0..MaxRetriesBound
    /\ attempt = 0
    /\ lpc = "attempt"
    /\ lret = NotReturned
    /\ trace = NoTrace

NextStreamCall ==
    \/ AttemptStreams
    \/ \E a \in FailedAnswers : AttemptFails(a)
    \/ \E l \in StreamedLines : TryNextChunk(<<Piece(l, "whole", FALSE)>>)
    \/ StreamEnd
    \/ StreamError
    \/ AfterStream
    \/ Sleep

SpecStreamCall == InitStreamCall /\ [][NextStreamCall]_vars

----
\* ToolExecutor::execute on its own (SpecExec): one batch is given to an
\* executor, the tool invocations it starts end one at a time.

\* The method of Tool through which execute reaches a registered tool:
\* tool.call_batch(calls) (parallel.rs 69), tool.call(arguments)
\* (sequential.rs 61).
EntryPoint(kind) == IF kind = "parallel" THEN "call_batch" ELSE "call"

Event(kind, i) == [kind |-> kind, call |-> i, via |-> EntryPoint(executor)]

\* The calls execute reaches, in the order it reaches them, between two
\* suspensions: every call group by group for the parallel executor
\* (parallel.rs 66-82, tool.rs 54-64), the calls passed since the last
\* suspension for the sequential one (sequential.rs 56-71).
RECURSIVE GroupSequence(_, _)
GroupSequence(calls, order) ==
    IF order = <<>> THEN <<>>
    ELSE GroupIndices(calls, Head(order)) \o GroupSequence(calls, Tail(order))

Reached(kind, before, after) ==
    IF kind = "parallel"
    THEN IF before.calls = <<>> THEN GroupSequence(after.calls, after.order) ELSE <<>>
    ELSE SelectSeq([i \in 1..Len(after.calls) |-> i],
                   LAMBDA i : /\ after.status[i] # "pending"
                              /\ (before.calls = <<>> \/ before.status[i] = "pending"))

\* What reaching these calls adds to the log: Tool::call of a registered tool
\* starts, and has ended already when the call was answered at once.
RECURSIVE ReachEvents(_, _, _)
ReachEvents(calls, reg, idx) ==
    IF idx = <<>> THEN <<>>
    ELSE LET i == Head(idx)
             ev == IF calls[i].function.name \notin reg THEN <<>>
                   ELSE IF AnsweredAtOnce(calls[i], reg)
                        THEN <<Event("start", i), Event("end", i)>>
                        ELSE <<Event("start", i)>>
         IN ev \o ReachEvents(calls, reg, Tail(idx))

\* execute(calls) is called and runs to its first suspension, or returns
\* (parallel.rs 54-85, sequential.rs 53-74).
Execute(calls, order) ==
    /\ xpc = "ready"
    /\ order \in OrdersFor(executor, calls)
    /\ LET es == ExecuteStart(executor, calls, registry, order)
       IN /\ exec' = es
          /\ xlog' = ReachEvents(calls, registry, Reached(executor, NoExec, es))
          /\ IF AllDone(es)
             THEN xpc' = "returned" /\ xret' = ExecuteResults(executor, es)
             ELSE xpc' = "running" /\ xret' = <<>>
    /\ UNCHANGED <<history, executor, registry, op, pc, ret, response, steps, stepBase, llmTotal>>
    /\ UNCHANGED <<llmVars, streamVars, libVars>>

\* The tool function of call i returns; execute goes on to its next
\* suspension, or returns (tool.rs 54-64, sequential.rs 56-73, parallel.rs 82-84).
ExecToolFinish(i) ==
    /\ xpc = "running"
    /\ i \in 1..Len(exec.calls)
    /\ exec.status[i] = "running"
    /\ LET es1 == [exec EXCEPT !.status[i] = "done",
                               !.out[i] = ToolBody[exec.calls[i].function.name]]
           es2 == IF executor = "sequential" THEN SequentialAdvance(es1, registry) ELSE es1
       IN /\ exec' = es2
          /\ xlog' = xlog \o <<Event("end", i)>>
                          \o ReachEvents(exec.calls, registry, Reached(executor, es1, es2))
          /\ IF AllDone(es2)
             THEN xpc' = "returned" /\ xret' = ExecuteResults(executor, es2)
             ELSE xpc' = "running" /\ xret' = <<>>
    /\ UNCHANGED <<history, executor, registry, op, pc, ret, response, steps, stepBase, llmTotal>>
    /\ UNCHANGED <<llmVars, streamVars, libVars>>

\* An executor as built: ParallelExecutor::new() or SequentialExecutor::new(),
\* then add(name, tool) for the registered tools (parallel.rs 49-52,
\* sequential.rs 48-51).
InitExec ==
    /\ history = <<>>
    /\ executor \in {"parallel", "sequential"}
    /\ registry \in Registries
    /\ op = [name |-> "none", arg |-> "", before |-> <<>>, llm |-> 0]
    /\ pc = "off"
    /\ ret = Unset
    /\ response = NoResponse
    /\ exec = NoExec
    /\ steps = <<>>
    /\ stepBase = 0
    /\ llmTotal = 0
    /\ LLMIdle
    /\ xpc = "ready"
    /\ xret = <<>>
    /\ xlog = <<>>
    /\ StreamIdle
    /\ LibIdle

NextExec ==
    \/ \E calls \in BatchesOf(MaxExecCalls) :
           \E order \in {<<>>} \cup GroupOrders(calls) : Execute(calls, order)
    \/ \E i \in 1..MaxExecCalls : ExecToolFinish(i)

SpecExec == InitExec /\ [][NextExec]_vars

----
\* A History on its own (SpecHistory): the default InfiniteHistory, or the
\* bounded CustomHistory of examples/history.rs, driven through the trait.

\* The turns given to the store.
Turns == {SystemMessage(c) : c \in SystemPrompts} \cup {UserMessage(p) : p \in Prompts}

TurnBatches == UNION {[1..k -> Turns] : k \in 0..MaxBatch}

\* Mutant of CustomHistoryAdd: the turn just pushed is the one removed.
CustomHistoryAdd_EvictsNewest(s, message) ==
    LET pushed == Append(s.messages, message)
    IN [s EXCEPT !.messages =
           IF Len(pushed) > s.max THEN SubSeq(pushed, 1, Len(pushed) - 1) ELSE pushed]

\* CustomHistory::add (examples/history.rs 22-27): push, then remove(0) when
\* the length is above max.
CustomHistoryAdd(s, message) ==
    LET pushed == Append(s.messages, message)
    IN [s EXCEPT !.messages = IF Len(pushed) > s.max THEN Tail(pushed) ELSE pushed]

\* History::add of the store at hand.
StoreAdd(s, message) ==
    IF s.kind = "infinite"
    THEN [s EXCEPT !.messages = HistoryAdd(s.messages, message)]
    ELSE CustomHistoryAdd(s, message)

\* History::add_batch, the default both stores keep (history.rs 13-17).
RECURSIVE StoreAddBatch(_, _)
StoreAddBatch(s, messages) ==
    IF messages = <<>> THEN s
    ELSE StoreAddBatch(StoreAdd(s, Head(messages)), Tail(messages))

\* History::get_all (infinite.rs 28-30, examples/history.rs 29-31).
StoreGetAll(s) == s.messages

\* history.add(message)
HistAdd(message) ==
    /\ store.kind # "none"
    /\ Len(added) + 1 <= MaxTurns
    /\ store' = StoreAdd(store, message)
    /\ added' = Append(added, message)
    /\ UNCHANGED <<seen, regVars, pureVars>>
    /\ UNCHANGED <<agentVars, llmVars, execVars, streamVars>>

\* history.add_batch(messages)
HistAddBatch(messages) ==
    /\ store.kind # "none"
    /\ Len(added) + Len(messages) <= MaxTurns
    /\ store' = StoreAddBatch(store, messages)
    /\ added' = added \o messages
    /\ UNCHANGED <<seen, regVars, pureVars>>
    /\ UNCHANGED <<agentVars, llmVars, execVars, streamVars>>

\* history.get_all()
HistGetAll ==
    /\ store.kind # "none"
    /\ seen' = StoreGetAll(store)
    /\ UNCHANGED <<store, added, regVars, pureVars>>
    /\ UNCHANGED <<agentVars, llmVars, execVars, streamVars>>

\* InfiniteHistory::new() (infinite.rs 10-14) or CustomHistory::new(max)
\* (examples/history.rs 12-19).
InitHistory ==
    /\ AgentOff
    /\ LLMIdle
    /\ ExecIdle
    /\ StreamIdle
    /\ RegIdle
    /\ PureIdle
    /\ store \in {[kind |-> "infinite", max |-> 0, messages |-> <<>>]}
                 \cup {[kind |-> "custom", max |-> n, messages |-> <<>>] : n \in 0..MaxCapacity}
    /\ added = <<>>
    /\ seen = <<>>

NextHistory ==
    \/ \E m \in Turns : HistAdd(m)
    \/ \E ms \in TurnBatches : HistAddBatch(ms)
    \/ HistGetAll

SpecHistory == InitHistory /\ [][NextHistory]_vars

----
\* ToolExecutor::add on its own (SpecRegistry): an executor is built and
\* tools are added to it, each call handing over a Box of its own.

\* The Box the n-th call of add hands over.
ToolInstance(n) == "tool " \o ToString(n)

\* Mutant of RegistryInsert: a name already taken keeps its tool.
RegistryInsert_KeepsFirst(t, name, tool) ==
    IF t[name] = NoTool THEN [t EXCEPT ![name] = tool] ELSE t

\* HashMap::insert, the map afterwards (parallel.rs 51, sequential.rs 50).
RegistryInsert(t, name, tool) == [t EXCEPT ![name] = tool]

\* HashMap::insert, the value it returns: the old value of the key, or None.
RegistryPrevious(t, name) == t[name]

\* executor.add(name, tool) (parallel.rs 49-52, sequential.rs 48-51).
ExecutorAdd(name) ==
    /\ Len(addlog) < MaxAdds
    /\ LET tool == ToolInstance(Len(addlog) + 1)
       IN /\ tools' = RegistryInsert(tools, name, tool)
          /\ addlog' = Append(addlog, [name |-> name, tool |-> tool,
                                       returned |-> RegistryPrevious(tools, name)])
    /\ UNCHANGED <<defs, builder, histVars, pureVars>>
    /\ UNCHANGED <<agentVars, llmVars, execVars, streamVars>>

\* ParallelExecutor::new() or SequentialExecutor::new() (parallel.rs 39-45,
\* sequential.rs 38-44).
InitRegistry ==
    /\ history = <<>>
    /\ executor \in {"parallel", "sequential"}
    /\ registry = {}
    /\ op = [name |-> "none", arg |-> "", before |-> <<>>, llm |-> 0]
    /\ pc = "off"
    /\ ret = Unset
    /\ response = NoResponse
    /\ exec = NoExec
    /\ steps = <<>>
    /\ stepBase = 0
    /\ llmTotal = 0
    /\ LLMIdle
    /\ ExecIdle
    /\ StreamIdle
    /\ HistIdle
    /\ PureIdle
    /\ tools = [n \in ToolNames |-> NoTool]
    /\ addlog = <<>>
    /\ defs = <<>>
    /\ builder = <<>>

NextRegistry == \E name \in ToolNames : ExecutorAdd(name)

SpecRegistry == InitRegistry /\ [][NextRegistry]_vars

----
\* The builder methods of Agent (SpecBuilder): Agent::new(llm), then tool,
\* bind, external, executor, history and system in any order.

\* The definitions one call of external is given: any list of names.
ExternalDefs == UNION {[1..n -> ToolNames] : n \in 0..MaxExternal}

\* The closure the n-th builder call boxes for the executor.
ClosureTool(n) == "closure " \o ToString(n)

\* The `for d in &defs { self.executor.add(name, ..) }` of external
\* (agent.rs 225-236), and the one add of tool and bind: the last add of a
\* name is the one the map keeps.
RECURSIVE AddAll(_, _, _)
AddAll(t, names, tool) ==
    IF names = <<>> THEN t
    ELSE AddAll(RegistryInsert(t, Head(names), tool), Tail(names), tool)

\* One more builder method has returned the agent.
Built(method) ==
    /\ Len(builder) < MaxBuilderCalls
    /\ builder' = Append(builder, method)
    /\ UNCHANGED <<registry, op, pc, ret, response, exec, steps, stepBase, llmTotal>>
    /\ UNCHANGED <<addlog, histVars, pureVars>>
    /\ UNCHANGED <<llmVars, execVars, streamVars>>

\* Agent::tool(f) (agent.rs 102-121).
AgentTool(name) ==
    /\ Built("tool")
    /\ defs' = Append(defs, name)
    /\ tools' = AddAll(tools, <<name>>, ClosureTool(Len(builder) + 1))
    /\ UNCHANGED <<history, executor>>

\* Agent::bind(ins, f) (agent.rs 154-175).
AgentBind(name) ==
    /\ Built("bind")
    /\ defs' = Append(defs, name)
    /\ tools' = AddAll(tools, <<name>>, ClosureTool(Len(builder) + 1))
    /\ UNCHANGED <<history, executor>>

\* Agent::external(defs, exec) (agent.rs 217-239).
AgentExternal(ds) ==
    /\ Built("external")
    /\ tools' = AddAll(tools, ds, ClosureTool(Len(builder) + 1))
    /\ defs' = defs \o ds
    /\ UNCHANGED <<history, executor>>

\* Agent::executor(e) (agent.rs 77-80): e takes the place of the executor
\* the agent had; e is an executor as built, or one that `add` was called
\* on for the names of `own` before.
AgentExecutor(kind, own) ==
    /\ Built("executor")
    /\ executor' = kind
    /\ tools' = [n \in ToolNames |-> IF n \in own THEN ToolInstance(0) ELSE NoTool]
    /\ UNCHANGED <<history, defs>>

\* Agent::history(h) (agent.rs 37-40), h an InfiniteHistory as built.
AgentHistory ==
    /\ Built("history")
    /\ history' = <<>>
    /\ UNCHANGED <<executor, tools, defs>>

\* Agent::system(content) (agent.rs 51-61).
AgentSystem(content) ==
    /\ Built("system")
    /\ history' = HistoryAdd(history, SystemMessage(content))
    /\ UNCHANGED <<executor, tools, defs>>

\* Agent::new(llm) (agent.rs 19-26): an InfiniteHistory, a ParallelExecutor
\* and no definition.
InitBuilder ==
    /\ InitRegistry
    /\ executor = "parallel"

NextBuilder ==
    \/ \E name \in ToolNames : AgentTool(name)
    \/ \E name \in ToolNames : AgentBind(name)
    \/ \E ds \in ExternalDefs : AgentExternal(ds)
    \/ \E kind \in {"parallel", "sequential"}, own \in SUBSET ToolNames : AgentExecutor(kind, own)
    \/ AgentHistory
    \/ \E content \in SystemPrompts : AgentSystem(content)

SpecBuilder == InitBuilder /\ [][NextBuilder]_vars

----
\* Library functions on their own (SpecLib): a value is chosen and one
\* function is applied to it.

\* Messages to serialize.
Messages ==
    {SystemMessage(c) : c \in SystemPrompts} \cup {UserMessage(p) : p \in Prompts}
    \cup {AssistantMessage([content |-> ContentOf(1), tool_calls |-> t]) :
             t \in {None, Some(<<>>), Some(<<ToolCall("1", "weather", "{}")>>)}}
    \cup {ToolMessage("1", ToolBody["weather"])}
    \cup {CustomMessage(r, b) :
             r \in {"custom", "user", "tool"},
             b \in {[content |-> "test", extra |-> "field"], [content |-> "test"],
                    [extra |-> "field"]}}

\* The attributes of a #[tool] function: every line of a `///` comment is
\* one #[doc = " <line>"], and other attributes stand between them.
DocLines == {"First line of documentation", "Second line of documentation"}
DocAttr(line) == [path |-> "doc", pad |-> " ", text |-> line]
OtherAttr == [path |-> "allow", pad |-> "", text |-> "dead_code"]
AttrLists == UNION {[1..k -> {DocAttr(l) : l \in DocLines} \cup {OtherAttr}] : k \in 0..MaxAttrs}

\* extract_args_struct, fn_doc (macros tool.rs 230-241): the value of the
\* first doc attribute, trimmed of its padding, or the empty string.  The
\* description is given as the lines it holds.
FnDoc(attrs) ==
    LET docs == SelectSeq(attrs, LAMBDA a : a.path = "doc")
    IN IF docs = <<>> THEN <<>> ELSE <<docs[1].text>>

\* The characters of a content: one of one byte, one of two (e acute).
Chars == {"a", "<C3 A9>"}
Utf8Len(c) == IF c = "<C3 A9>" THEN 2 ELSE 1
Contents == UNION {[1..k -> Chars] : k \in 0..MaxChars}

\* String::len: the length in bytes.
RECURSIVE ByteLen(_)
ByteLen(content) == IF content = <<>> THEN 0 ELSE Utf8Len(Head(content)) + ByteLen(Tail(content))

Min(a, b) == IF a <= b THEN a ELSE b

\* truncate_text (tool/utils.rs 2-20): the characters kept, and the suffix.
TruncateText(content, start, end) ==
    LET total_len == ByteLen(content)
        end_idx == Min(end, total_len)
        take == IF end_idx >= start THEN end_idx - start ELSE 0
        kept == SubSeq(content, start + 1, Min(Len(content), start + take))
    IN [chars |-> kept,
        suffix |-> IF end_idx < total_len
                   THEN "\n\n---\ntruncated [" \o ToString(end_idx) \o "/"
                        \o ToString(total_len) \o " chars]"
                   ELSE ""]

\* serde_json::to_string(&message)
Serialize ==
    /\ fn = "ready"
    /\ input.kind = "message"
    /\ fn' = "to_string"
    /\ output' = ToWire(input.value)
    /\ UNCHANGED <<input, histVars, regVars>>
    /\ UNCHANGED <<agentVars, llmVars, execVars, streamVars>>

\* serde_json::from_str::<Message>(&json) of what to_string returned
Deserialize ==
    /\ fn = "to_string"
    /\ fn' = "from_str"
    /\ output' = FromWire(output)
    /\ UNCHANGED <<input, histVars, regVars>>
    /\ UNCHANGED <<agentVars, llmVars, execVars, streamVars>>

\* #[tool] expands the function: TOOL_DESCRIPTION (macros tool.rs 137, 268)
ExpandTool ==
    /\ fn = "ready"
    /\ input.kind = "attrs"
    /\ fn' = "tool"
    /\ output' = FnDoc(input.value)
    /\ UNCHANGED <<input, histVars, regVars>>
    /\ UNCHANGED <<agentVars, llmVars, execVars, streamVars>>

\* truncate_text(content, start, end)
Truncate ==
    /\ fn = "ready"
    /\ input.kind = "text"
    /\ fn' = "truncate_text"
    /\ output' = TruncateText(input.value.content, input.value.start, input.value.end)
    /\ UNCHANGED <<input, histVars, regVars>>
    /\ UNCHANGED <<agentVars, llmVars, execVars, streamVars>>

InitLib ==
    /\ AgentOff
    /\ LLMIdle
    /\ ExecIdle
    /\ StreamIdle
    /\ HistIdle
    /\ RegIdle
    /\ fn = "ready"
    /\ \/ \E m \in Messages : input = [kind |-> "message", value |-> m]
       \/ \E a \in AttrLists : input = [kind |-> "attrs", value |-> a]
       \/ \E c \in Contents : \E b, e \in 0..MaxIndex :
              input = [kind |-> "text", value |-> [content |-> c, start |-> b, end |-> e]]
    /\ output = ""

NextLib ==
    \/ Serialize
    \/ Deserialize
    \/ ExpandTool
    \/ Truncate

SpecLib == InitLib /\ [][NextLib]_vars

----
\* Properties of the Agent loop (Spec, LiveSpec).

\* The steps of the current API call whose LLM call succeeded.
OkSteps == {k \in 1..Len(steps) : steps[k].result.kind # "err"}

IsToolCalls(s) == s.response.finish_reason = "tool_calls"

\* A step has begun and has not returned.
StepBegun == pc \in {"llm", "exec", "panicked"}

\* The positions of the history a step added after its assistant turn.
AfterAssistant(s) == (s.base + 2)..s.after

\* C1: after a successful step whose finish reason is ToolCalls, with either
\* executor, the step has added the assistant turn and right after it only
\* tool turns, exactly one for every tool call id of the assistant turn.
C1_PairingAfterStep ==
    \A k \in OkSteps :
        LET s == steps[k]
            calls == s.response.message.tool_calls.calls
        IN IsToolCalls(s) =>
            /\ s.after >= s.base + 1
            /\ history[s.base + 1] = AssistantMessage(s.response.message)
            /\ \A j \in AfterAssistant(s) : history[j].role = "tool"
            /\ \A i \in 1..Len(calls) :
                   Cardinality({j \in AfterAssistant(s) :
                                   history[j].tool_call_id = calls[i].id}) = 1

\* The parallel executor answered two calls to two tools, one of them not
\* registered, and the results came back in the other order.
C1_Witness ==
    /\ executor = "parallel"
    /\ pc = "idle"
    /\ \E k \in OkSteps :
           LET s == steps[k]
               calls == s.response.message.tool_calls.calls
           IN /\ IsToolCalls(s)
              /\ Len(calls) = 2
              /\ calls[1].function.name # calls[2].function.name
              /\ calls[2].function.name \notin registry
              /\ s.after = s.base + 3
              /\ history[s.base + 2].tool_call_id = calls[2].id

\* C2: every tool turn of the history answers an id of the nearest assistant
\* turn before it, and only tool turns lie between the two.
C2_Interleaving ==
    \A j \in 1..Len(history) :
        history[j].role = "tool" =>
            \E a \in 1..(j - 1) :
                /\ history[a].role = "assistant"
                /\ \A m \in (a + 1)..(j - 1) : history[m].role = "tool"
                /\ \E i \in 1..Len(history[a].tool_calls.calls) :
                       history[a].tool_calls.calls[i].id = history[j].tool_call_id

\* Two dispatch rounds of two API calls, a user turn between them, after a
\* system turn.
C2_Witness ==
    /\ pc = "idle"
    /\ Len(history) >= 6
    /\ history[1].role = "system"
    /\ history[Len(history)].role = "tool"
    /\ \E j \in 1..(Len(history) - 1) :
           history[j].role = "tool" /\ history[j + 1].role = "user"

\* C3: a successful step returns Ok(None) exactly when the finish reason is
\* ToolCalls, and otherwise the content of its assistant turn; run and chat
\* return the content of the first assistant turn whose finish reason is not
\* ToolCalls.
C3_LoopContinuation ==
    /\ \A k \in OkSteps :
           LET s == steps[k]
           IN /\ s.result.kind = "none" <=> IsToolCalls(s)
              /\ ~IsToolCalls(s) => s.result = OkSome(history[s.base + 1].content)
    /\ (pc = "idle" /\ op.name = "step" /\ ret.kind # "err") =>
           Len(steps) = 1 /\ ret = steps[1].result
    /\ (pc = "idle" /\ op.name \in {"run", "chat"} /\ ret.kind # "err") =>
           \E k \in OkSteps :
               /\ ~IsToolCalls(steps[k])
               /\ \A j \in 1..(k - 1) : IsToolCalls(steps[j])
               /\ ret = OkSome(history[steps[k].base + 1].content)

\* run went through a step that continued and returned the content of the
\* second answer, whose finish reason was Length.
C3_Witness ==
    /\ pc = "idle"
    /\ op.name = "run"
    /\ Len(steps) = 2
    /\ steps[1].result = OkNone
    /\ steps[2].response.finish_reason = "length"
    /\ ret = OkSome(ContentOf(llmTotal))

\* C4 as claimed: the executor runs and tool turns are added only for a
\* response whose finish reason is ToolCalls; any other finish reason ends
\* the step with the assistant turn alone.
C4_DispatchOnlyOnToolCalls ==
    /\ pc = "exec" => response.finish_reason = "tool_calls"
    /\ \A k \in OkSteps :
           LET s == steps[k]
           IN ~IsToolCalls(s) => (~s.dispatched /\ s.after = s.base + 1)

\* C4 amended: the executor runs exactly when the message of the response
\* carries tool calls, whatever the finish reason, and one tool turn per call
\* is added then and none otherwise; a finish reason other than ToolCalls
\* makes the step return the content.
C4_DispatchOnToolCallsPresent ==
    /\ pc = "exec" => response.message.tool_calls.some
    /\ \A k \in OkSteps :
           LET s == steps[k]
               tc == s.response.message.tool_calls
           IN /\ s.dispatched <=> tc.some
              /\ s.after = s.base + 1 + Len(tc.calls)
              /\ \A j \in AfterAssistant(s) : history[j].role = "tool"
              /\ ~IsToolCalls(s) => s.result.kind = "some"

\* A response with finish reason Stop that carried a tool call: the tool ran,
\* its turn is the last of the history and the step returned the content.
C4_Witness ==
    /\ pc = "idle"
    /\ op.name = "step"
    /\ Len(steps) = 1
    /\ steps[1].response.finish_reason = "stop"
    /\ steps[1].dispatched
    /\ Len(steps[1].response.message.tool_calls.calls) = 1
    /\ history[Len(history)].role = "tool"
    /\ ret.kind = "some"

\* C5: every step issues one LLM call, adds one assistant turn, first, and
\* tool turns of at most one dispatch round after it.
C5_OneTransitionPerStep ==
    /\ llmTotal - op.llm = Len(steps) + (IF StepBegun THEN 1 ELSE 0)
    /\ pc = "exec" =>
           /\ Len(history) = stepBase + 1
           /\ history[stepBase + 1].role = "assistant"
    /\ \A k \in OkSteps :
           LET s == steps[k]
           IN /\ s.after >= s.base + 1
              /\ history[s.base + 1].role = "assistant"
              /\ \A j \in AfterAssistant(s) : history[j].role = "tool"
              /\ s.after - s.base - 1 <= Len(s.response.message.tool_calls.calls)

\* A step that dispatched two calls and returned.
C5_Witness ==
    /\ pc = "idle"
    /\ op.name = "step"
    /\ Len(steps) = 1
    /\ steps[1].dispatched
    /\ Len(history) = Len(op.before) + 3
    /\ llmTotal = op.llm + 1

RunActive == op.name \in {"run", "chat"} /\ pc \in {"llm", "exec"}

\* run has made one LLM call per step, every step but the last returned
\* Ok(None), and once run has returned the last step is the one that was
\* done or failed, whose value run returned.
RunStopsAtFirstEnd ==
    op.name \in {"run", "chat"} =>
        /\ llmTotal - op.llm = Len(steps) + (IF StepBegun THEN 1 ELSE 0)
        /\ \A k \in 1..(Len(steps) - 1) : steps[k].result.kind = "none"
        /\ pc \in {"llm", "exec"} => \A k \in 1..Len(steps) : steps[k].result.kind = "none"
        /\ pc = "idle" =>
               /\ Len(steps) >= 1
               /\ steps[Len(steps)].result.kind \in {"some", "err"}
               /\ ret = steps[Len(steps)].result

\* C6: run stops at the first step that is done or failed and makes no LLM
\* call after it; when tools return and the LLM ends up with a finish reason
\* other than ToolCalls or with an error, run returns.
C6_RunTerminates ==
    /\ []RunStopsAtFirstEnd
    /\ [](pc # "panicked") => (RunActive ~> pc = "idle")

\* run returned the error of its second step, after a step that continued.
C6_Witness ==
    /\ pc = "idle"
    /\ op.name = "run"
    /\ Len(steps) = 2
    /\ steps[1].dispatched
    /\ ret.kind = "err"

\* C7: chat adds one user turn with the prompt before it runs; when the first
\* answer has no tool calls and finish reason Stop, chat returns its content
\* and the history is the one before plus the user turn and the assistant
\* turn.
C7_ChatToolFree ==
    op.name = "chat" =>
        /\ (pc = "llm" /\ steps = <<>>) =>
               history = Append(op.before, UserMessage(op.arg))
        /\ (pc = "idle" /\ Len(steps) >= 1
            /\ steps[1].result.kind # "err"
            /\ ~steps[1].response.message.tool_calls.some
            /\ steps[1].response.finish_reason = "stop") =>
               /\ Len(steps) = 1
               /\ ret = OkSome(steps[1].response.message.content)
               /\ history = op.before \o <<UserMessage(op.arg),
                                            AssistantMessage(steps[1].response.message)>>

\* [System] has become [System, User, Assistant] and chat returned the content.
C7_Witness ==
    /\ pc = "idle"
    /\ op.name = "chat"
    /\ op.before = <<SystemMessage("helper")>>
    /\ history = <<SystemMessage("helper"), UserMessage("2+2?"),
                   AssistantMessage([content |-> ContentOf(1), tool_calls |-> None])>>
    /\ ret = OkSome(ContentOf(1))

\* What a tool call comes to: its tool is not registered, its arguments do
\* not deserialize, or the tool function ran and returned its text.
ToolOutcome(call) ==
    IF call.function.name \notin registry
    THEN "Tool '" \o call.function.name \o "' not found"
    ELSE IF ~ParsesAsArgs(call.function.arguments)
         THEN ArgsError(call.function.arguments)
         ELSE ToolBody[call.function.name]

Running(es) == {i \in 1..Len(es.calls) : es.status[i] = "running"}

\* C16: while an LLM call is pending no tool invocation is in progress; the
\* executor returns to the step only when the last invocation in progress
\* ends; and when the LLM call of the next step is issued, the Tool turn of
\* every call of the step before it is in the history.
C16_DispatchBarrier ==
    /\ [](pc = "llm" => exec = NoExec)
    /\ [][/\ (pc = "exec" /\ pc' # "exec") => Cardinality(Running(exec)) = 1
          /\ llmTotal' # llmTotal =>
                 /\ pc' = "llm"
                 /\ Running(exec') = {}
                 /\ Len(steps') > Len(steps) =>
                        LET s == steps'[Len(steps')]
                            calls == s.response.message.tool_calls.calls
                        IN \A i \in 1..Len(calls) :
                               \E j \in (s.base + 2)..Len(history') :
                                   /\ history'[j].role = "tool"
                                   /\ history'[j].tool_call_id = calls[i].id]_vars

\* run issued its second LLM call after the parallel executor had run two
\* tools side by side: both Tool turns are in the history.
C16_Witness ==
    /\ op.name = "run"
    /\ pc = "llm"
    /\ llmTotal = op.llm + 2
    /\ executor = "parallel"
    /\ Len(steps) = 1
    /\ steps[1].dispatched
    /\ LET calls == steps[1].response.message.tool_calls.calls
       IN /\ Len(calls) = 2
          /\ calls[1].function.name = "weather"
          /\ calls[2].function.name = "search"
          /\ "search" \in registry
          /\ \A i \in 1..2 : ParsesAsArgs(calls[i].function.arguments)
          /\ Len(history) = steps[1].base + 3
          /\ history[steps[1].base + 2] = ToolMessage("2", ToolBody["search"])
          /\ history[steps[1].base + 3] = ToolMessage("1", ToolBody["weather"])

\* C34: when the LLM call of a step returns an error the step returns that
\* error, adds no turn and executes no tool: the history is the one the step
\* found, the one the next step sends again; after a failed chat(prompt)
\* whose first step failed it is the history before plus the user turn.
C34_FailedStepLeavesHistory ==
    /\ [](/\ \A k \in 1..Len(steps) :
                 steps[k].result.kind = "err" =>
                     /\ k = Len(steps)
                     /\ ~steps[k].dispatched
                     /\ steps[k].after = steps[k].base
                     /\ pc = "idle" /\ ret = steps[k].result
                     /\ Len(history) = steps[k].base
                     /\ exec = NoExec
          /\ (op.name = "chat" /\ Len(steps) = 1 /\ steps[1].result.kind = "err") =>
                 history = Append(op.before, UserMessage(op.arg))
          /\ (op.name \in {"step", "run"} /\ Len(steps) = 1 /\ steps[1].result.kind = "err") =>
                 history = op.before)
    /\ [][(pc = "llm" /\ ret'.kind = "err") =>
              /\ history' = history
              /\ exec' = NoExec /\ exec = NoExec
              /\ llmTotal' = llmTotal]_vars

\* chat failed in its second step, after a step that ran a tool: the
\* history ends with the tool turn of the first step.
C34_Witness ==
    /\ pc = "idle"
    /\ op.name = "chat"
    /\ ret.kind = "err"
    /\ Len(steps) = 2
    /\ steps[1].dispatched
    /\ Len(history) = steps[1].after
    /\ history[Len(history)].role = "tool"
    /\ history[Len(op.before) + 1] = UserMessage(op.arg)

\* C39 as claimed: a step that returned Ok(None) has added at least one tool
\* turn after its assistant turn, so that run never calls the LLM again on
\* a history that grew by an assistant turn only.
C39_ContinuingStepProgress ==
    \A k \in OkSteps :
        steps[k].result.kind = "none" =>
            /\ steps[k].after >= steps[k].base + 2
            /\ \A j \in AfterAssistant(steps[k]) : history[j].role = "tool"

----
\* Properties of the builder methods of Agent (SpecBuilder).

\* C35 as claimed: after any sequence of builder calls every name of
\* Agent::tools() is a name the executor resolves to a tool.
C35_AdvertisedToolsCallable ==
    \A i \in 1..Len(defs) : tools[defs[i]] # NoTool

\* C36 as claimed: after any sequence of registrations, one name registered
\* twice included, Agent::tools() holds no two definitions of one name.
C36_NoDuplicateDefinitions ==
    \A i, j \in 1..Len(defs) : defs[i] = defs[j] => i = j

----
\* Properties of OpenAIProvider::call (SpecLLM).

TransportClasses == {"transport", "status"}

\* C8: when every attempt fails on the transport or with a non-2xx status,
\* call makes max_retries + 1 attempts, no more and no fewer, and returns the
\* error of the last one.
C8_RetryBound ==
    trace.allTransport =>
        /\ trace.tries <= max_retries + 1
        /\ lpc = "sleep" => trace.tries <= max_retries
        /\ lpc = "returned" =>
               /\ trace.tries = max_retries + 1
               /\ lret.kind = "err"
               /\ lret.error.class \in TransportClasses
               /\ lret.error.attempt = trace.tries

\* With max_retries = 2 three attempts failed and the third error, a
\* non-2xx status, was returned after two delays.
C8_Witness ==
    /\ lpc = "returned"
    /\ trace.allTransport
    /\ max_retries = 2
    /\ trace.tries = 3
    /\ trace.delays = 2
    /\ lret = ErrResult("status", 3)

\* C9: call returns at the first attempt that succeeds: no attempt follows
\* it, and the response of that attempt is returned as it was served.
C9_SuccessNotRetried ==
    trace.firstOk # 0 =>
        /\ trace.tries = trace.firstOk
        /\ trace.tries <= max_retries + 1
        /\ lpc = "returned"
        /\ lret = OkResult(trace.served)

\* The second attempt was the first success; its response asks for tools
\* without naming any and was returned all the same.
C9_Witness ==
    /\ lpc = "returned"
    /\ trace.first = "transport"
    /\ trace.firstOk = 2
    /\ trace.tries = 2
    /\ lret.kind = "ok"
    /\ lret.response.finish_reason = "tool_calls"
    /\ ~lret.response.message.tool_calls.some

\* C10 as claimed: a 2xx answer of a shape the client cannot use makes call
\* return an error after that one attempt, without a delay and without a
\* panic.
C10_ProtocolErrorNotRetried ==
    trace.first = "protocol" =>
        /\ lpc = "returned"
        /\ lret.kind = "err"
        /\ trace.tries = 1
        /\ trace.delays = 0

\* C33: one delay lies between every two consecutive attempts of a call and
\* there is no other: none before the first attempt, none after an attempt
\* that succeeded, none after the last attempt that failed; a call whose
\* attempts all failed has made max_retries delays.
C33_RetryDelays ==
    /\ [](/\ lpc = "attempt" => trace.delays = trace.tries
          /\ lpc \in {"sleep", "returned", "panicked"} => trace.delays = trace.tries - 1
          /\ (lpc = "returned" /\ lret.kind = "err") =>
                 /\ trace.tries = max_retries + 1
                 /\ trace.delays = max_retries)
    /\ [][/\ trace'.delays > trace.delays =>
                 /\ trace'.delays = trace.delays + 1
                 /\ lpc = "sleep" /\ lpc' = "attempt"
                 /\ trace'.tries = trace.tries
          /\ trace'.tries > trace.tries =>
                 /\ trace.delays = trace.tries
                 /\ trace'.delays = trace.delays
          /\ (lpc = "attempt" /\ lpc' = "sleep") =>
                 /\ attempt' <= max_retries
                 /\ trace.firstOk = 0 /\ trace'.firstOk = 0]_vars

\* With max_retries = 2 the first two attempts failed, the third succeeded
\* after two delays, and call returned at once.
C33_Witness ==
    /\ max_retries = 2
    /\ lpc = "returned"
    /\ lret.kind = "ok"
    /\ trace.tries = 3
    /\ trace.firstOk = 3
    /\ trace.delays = 2

----
\* Properties of ToolExecutor::execute (SpecExec).

Unregistered(call) == call.function.name \notin registry

\* The positions of the messages execute returned for the call with this id.
ResultsFor(id) == {j \in 1..Len(xret) : xret[j].tool_call_id = id}

\* C12: with either executor and whatever else the batch holds, a call whose
\* function name has no registered tool gets one result, with the call's id
\* and the content "Tool '<name>' not found", and every other call of the
\* batch gets the result it gets on its own.
C12_UnknownToolResult ==
    xpc = "returned" =>
        \A i \in 1..Len(exec.calls) :
            Unregistered(exec.calls[i]) =>
                /\ Cardinality(ResultsFor(exec.calls[i].id)) = 1
                /\ \A j \in ResultsFor(exec.calls[i].id) :
                       xret[j] = [role |-> "tool",
                                  content |-> "Tool '" \o exec.calls[i].function.name
                                                       \o "' not found",
                                  tool_calls |-> None,
                                  tool_call_id |-> exec.calls[i].id]
                /\ \A k \in 1..Len(exec.calls) :
                       k # i =>
                           \A j \in ResultsFor(exec.calls[k].id) :
                               xret[j].content = ToolOutcome(exec.calls[k])

\* The sequential executor returned for a batch of three: two calls to the
\* unregistered search tool around a call the weather tool answered.
C12_Witness ==
    /\ xpc = "returned"
    /\ executor = "sequential"
    /\ registry = {"weather"}
    /\ Len(exec.calls) = 3
    /\ exec.calls[1].function.name = "search"
    /\ exec.calls[2] = ToolCall("2", "weather", "{}")
    /\ exec.calls[3].function.name = "search"
    /\ xret = <<ToolMessage("1", "Tool 'search' not found"),
                ToolMessage("2", "sunny"),
                ToolMessage("3", "Tool 'search' not found")>>

\* C13: the parallel executor returns as many messages as it was given
\* calls, every id of the batch is the id of exactly one of them, and every
\* message carries an id of the batch.
C13_ParallelCompleteness ==
    (executor = "parallel" /\ xpc = "returned") =>
        /\ Len(xret) = Len(exec.calls)
        /\ \A i \in 1..Len(exec.calls) : Cardinality(ResultsFor(exec.calls[i].id)) = 1
        /\ \A j \in 1..Len(xret) :
               /\ xret[j].role = "tool"
               /\ \E i \in 1..Len(exec.calls) : xret[j].tool_call_id = exec.calls[i].id

\* Three calls over two names, one of them not registered: the results came
\* back grouped, not in the order of the batch.
C13_Witness ==
    /\ executor = "parallel"
    /\ xpc = "returned"
    /\ registry = {"weather"}
    /\ Len(exec.calls) = 3
    /\ exec.calls[1].function.name = "weather"
    /\ exec.calls[2].function.name = "search"
    /\ exec.calls[3].function.name = "weather"
    /\ Len(xret) = 3
    /\ xret[1].tool_call_id = "2"
    /\ xret[2].tool_call_id = "1"
    /\ xret[3].tool_call_id = "3"

\* C14: in the parallel executor no call waits for a call to another tool,
\* or to the same tool: from the first suspension on every call is in
\* progress or answered, and every call in progress can be the next to end.
C14_CrossToolConcurrency ==
    (executor = "parallel" /\ xpc = "running") =>
        \A i \in 1..Len(exec.calls) :
            /\ exec.status[i] \in {"running", "done"}
            /\ exec.status[i] = "running" => ENABLED ExecToolFinish(i)

\* The call to the search tool, second in the batch, has ended while the
\* call to the weather tool, first in the batch, is still in progress.
C14_Witness ==
    /\ executor = "parallel"
    /\ xpc = "running"
    /\ Len(exec.calls) = 2
    /\ exec.calls[1].function.name = "weather"
    /\ exec.calls[2].function.name = "search"
    /\ exec.status[1] = "running"
    /\ exec.status[2] = "done"
    /\ exec.out[2] = ToolBody["search"]
    /\ xlog[Len(xlog)] = Event("end", 2)
    /\ \E p \in 1..Len(xlog) : xlog[p] = Event("start", 1)
    /\ \A p \in 1..Len(xlog) : xlog[p] # Event("end", 1)

\* C15: the sequential executor starts the tool invocations in the order of
\* the batch, none left out, starts one only after the one before it has
\* ended, so that at most one is in progress, and returns one message per
\* call in the order of the batch.
C15_SequentialOrdering ==
    executor = "sequential" =>
        /\ Cardinality({i \in 1..Len(exec.calls) : exec.status[i] = "running"}) <= 1
        /\ \A p, q \in 1..Len(xlog) :
               (p < q /\ xlog[p].kind = "start" /\ xlog[q].kind = "start") =>
                   /\ xlog[p].call < xlog[q].call
                   /\ \E m \in (p + 1)..(q - 1) : xlog[m] = Event("end", xlog[p].call)
        /\ \A q \in 1..Len(xlog) :
               xlog[q].kind = "start" =>
                   \A i \in 1..(xlog[q].call - 1) :
                       ~Unregistered(exec.calls[i]) =>
                           \E p \in 1..(q - 1) : xlog[p] = Event("start", i)
        /\ xpc = "returned" =>
               /\ Len(xret) = Len(exec.calls)
               /\ \A i \in 1..Len(exec.calls) :
                      /\ xret[i].tool_call_id = exec.calls[i].id
                      /\ ~Unregistered(exec.calls[i]) =>
                             \E p \in 1..Len(xlog) : xlog[p] = Event("start", i)

\* Three invocations, one after the other, and the three results in the
\* order of the batch.
C15_Witness ==
    /\ executor = "sequential"
    /\ xpc = "returned"
    /\ Len(exec.calls) = 3
    /\ xlog = <<Event("start", 1), Event("end", 1), Event("start", 2), Event("end", 2),
                Event("start", 3), Event("end", 3)>>
    /\ exec.calls[2].function.name # exec.calls[1].function.name
    /\ \A i \in 1..3 : ParsesAsArgs(exec.calls[i].function.arguments)
    /\ \A i \in 1..3 : xret[i].tool_call_id = exec.calls[i].id

\* The positions of the log where the invocation of call i starts and ends.
StartsAt(i) == {p \in 1..Len(xlog) : xlog[p].kind = "start" /\ xlog[p].call = i}
EndsAt(i) == {p \in 1..Len(xlog) : xlog[p].kind = "end" /\ xlog[p].call = i}

\* Two calls to one tool, each entering the tool function.
SameToolPair(i, k) ==
    /\ i # k
    /\ exec.calls[i].function.name = exec.calls[k].function.name
    /\ ~AnsweredAtOnce(exec.calls[i], registry)
    /\ ~AnsweredAtOnce(exec.calls[k], registry)

\* C31: under the parallel strategy, with the default call_batch, two
\* invocations of one tool in one dispatch round overlap: both have started
\* before either ends.  Under the sequential strategy they never do: of two
\* invocations the second starts after the first has ended.
C31_SameToolConcurrency ==
    \A i, k \in 1..Len(exec.calls) :
        SameToolPair(i, k) =>
            IF executor = "parallel"
            THEN /\ xpc # "ready" => StartsAt(i) # {} /\ StartsAt(k) # {}
                 /\ \A p \in StartsAt(i), q \in EndsAt(k) : p < q
            ELSE \A p \in StartsAt(i), q \in StartsAt(k) :
                     p < q => \E m \in EndsAt(i) : m < q

\* Parallel: two invocations of the weather tool have both started and
\* neither has finished.
C31_Witness ==
    /\ executor = "parallel"
    /\ xpc = "running"
    /\ \E i, k \in 1..Len(exec.calls) :
           /\ SameToolPair(i, k)
           /\ exec.calls[i].function.name = "weather"
           /\ exec.status[i] = "running" /\ exec.status[k] = "running"
           /\ StartsAt(i) # {} /\ StartsAt(k) # {}
           /\ EndsAt(i) = {} /\ EndsAt(k) = {}

\* C32 as claimed: with every executor, every invocation of a tool in a
\* dispatch round reaches the tool through call_batch, never through call.
C32_OnlyThroughCallBatch ==
    \A p \in 1..Len(xlog) : xlog[p].via = "call_batch"

\* How often a message is among these messages.
Count(msgs, m) == Cardinality({j \in 1..Len(msgs) : msgs[j] = m})

\* C40: whichever the executor, execute returns for a registry and a batch
\* the multiset of the (tool_call_id, content) pairs of the calls' outcomes,
\* which depend on the registry and on each call alone; the two executors
\* can differ in the order of the results only.
C40_StrategyEquivalence ==
    xpc = "returned" =>
        LET outcomes == [i \in 1..Len(exec.calls) |->
                            ToolMessage(exec.calls[i].id, ToolOutcome(exec.calls[i]))]
        IN /\ Len(xret) = Len(outcomes)
           /\ \A j \in 1..Len(xret) : Count(xret, xret[j]) = Count(outcomes, xret[j])
           /\ \A i \in 1..Len(outcomes) : Count(xret, outcomes[i]) = Count(outcomes, outcomes[i])
           /\ executor = "sequential" => xret = outcomes

\* The parallel executor has returned the results of search, weather,
\* search, the last with arguments that do not parse, in another order than
\* the sequential executor returns them.
C40_Witness ==
    /\ executor = "parallel"
    /\ xpc = "returned"
    /\ registry = {"weather", "search"}
    /\ Len(exec.calls) = 3
    /\ exec.calls[1].function.name = "search"
    /\ exec.calls[2].function.name = "weather"
    /\ exec.calls[3].function.name = "search"
    /\ ~ParsesAsArgs(exec.calls[3].function.arguments)
    /\ xret = <<ToolMessage("2", ToolBody["weather"]), ToolMessage("1", ToolBody["search"]),
                ToolMessage("3", ArgsError("{"))>>

----
\* Properties of OpenAIProvider::handle_stream (SpecStream).

RECURSIVE Wire(_)
Wire(chunks) == IF chunks = <<>> THEN <<>> ELSE Head(chunks) \o Wire(Tail(chunks))

\* The lines the transport has delivered in full, as the endpoint wrote them.
LinesSent ==
    LET ended == SelectSeq(Wire(sent), LAMBDA p : p.part # "head")
    IN [k \in 1..Len(ended) |-> ended[k].line]

\* The frames of the stream: the lines in front of the first `data: [DONE]`.
RECURSIVE UpToDone(_)
UpToDone(lines) ==
    IF lines = <<>> \/ Head(lines).kind = "done" THEN <<>>
    ELSE <<Head(lines)>> \o UpToDone(Tail(lines))

RECURSIVE Concat(_)
Concat(texts) == IF texts = <<>> THEN "" ELSE Head(texts) \o Concat(Tail(texts))

\* S: the content deltas of the frames, concatenated.
ContentSent ==
    LET frames == SelectSeq(UpToDone(LinesSent), LAMBDA l : l.kind = "content")
    IN Concat([k \in 1..Len(frames) |-> frames[k].text])

\* C17 as claimed: the content of the returned message is S, and so is the
\* concatenation of the fragments the callback was given.
C17_ContentReconstruction ==
    spc = "returned" =>
        /\ sret.kind = "ok"
        /\ sret.response.message.content = ContentSent
        /\ Concat(hs.callback) = ContentSent

\* The tool call deltas of the frames, and the calls they spell: a delta with
\* id and name opens a call, a delta without them goes on with its arguments.
CallFrames == SelectSeq(UpToDone(LinesSent), LAMBDA l : l.kind = "call")

RECURSIVE Reassembled(_, _)
Reassembled(calls, frames) ==
    IF frames = <<>> THEN calls
    ELSE LET d == Head(frames).call
         IN IF d.named
            THEN Reassembled(Append(calls, ToolCall(d.id, d.name, d.arguments)), Tail(frames))
            ELSE Reassembled(
                     [calls EXCEPT ![Len(calls)].function.arguments = @ \o d.arguments],
                     Tail(frames))

\* One call, opened by the first of its deltas.
OneLogicalCall ==
    /\ CallFrames # <<>>
    /\ CallFrames[1].call.named
    /\ \A k \in 2..Len(CallFrames) : ~CallFrames[k].call.named

\* C18 as claimed: the returned message holds one ToolCall for the logical
\* call, with the fragments of its arguments concatenated: the ToolCall it
\* holds when the call arrives whole in one frame.
C18_ToolCallReassembly ==
    (spc = "returned" /\ OneLogicalCall) =>
        sret.response.message.tool_calls = Some(Reassembled(<<>>, CallFrames))

\* `data: [DONE]` has been delivered in full, and so read.
DoneRead == \E k \in 1..Len(LinesSent) : LinesSent[k].kind = "done"

\* C19 as claimed: once `data: [DONE]` has been read nothing that arrives
\* changes the content, the tool calls or the finish reason, or reaches the
\* callback.
C19_TerminalFrame ==
    [][DoneRead =>
           /\ hs'.content = hs.content
           /\ hs'.tool_calls = hs.tool_calls
           /\ hs'.finish_reason = hs.finish_reason
           /\ hs'.callback = hs.callback]_vars

\* A line without the prefix `data: `, or whose payload is no JSON.
Unparseable(line) == line.kind \in {"comment", "badjson"}

\* The body without its unparseable lines: a chunk that held nothing else is
\* no chunk.
RECURSIVE WithoutUnparseable(_)
WithoutUnparseable(chunks) ==
    IF chunks = <<>> THEN <<>>
    ELSE LET c == SelectSeq(Head(chunks), LAMBDA p : ~Unparseable(p.line))
         IN (IF c = <<>> THEN <<>> ELSE <<c>>) \o WithoutUnparseable(Tail(chunks))

\* C20 as claimed: the call does not fail on an unparseable line, and the
\* response and the fragments given to the callback are those of the same
\* body without these lines.
C20_UnparseableSkipped ==
    spc = "returned" =>
        LET h == Feed(StreamStart, WithoutUnparseable(sent))
        IN /\ sret = OkResult(StreamResponse(h))
           /\ hs.callback = h.callback

\* The lines the loop has taken out of the buffer, as it decoded them: the
\* lines delivered in full but for those still in the buffer.
LinesRead ==
    LET ended == SelectSeq(Wire(sent), LAMBDA p : p.part # "head")
        text(p) == IF p.part = "tail" /\ p.torn /\ Multibyte(p.line.text)
                   THEN TornText(p.line.text) ELSE p.line.text
    IN [k \in 1..(Len(ended) - Len(hs.queue)) |-> [ended[k].line EXCEPT !.text = text(ended[k])]]

\* The frames the loop has processed: the lines read that are `data: ` with
\* a payload that parses, `data: [DONE]` apart.
FramesProcessed ==
    SelectSeq(LinesRead, LAMBDA l : l.kind \in {"content", "finish"} \/ (l.kind = "call" /\ l.call.named))

\* The finish reason of the last processed frame that carries one, Stop when
\* there is none.
LastReason ==
    LET carrying == SelectSeq(FramesProcessed, LAMBDA l : l.kind = "finish")
    IN IF carrying = <<>> THEN "stop" ELSE carrying[Len(carrying)].reason

\* C21: the finish reason of a streamed response is Stop when no processed
\* frame carries a finish_reason, and otherwise that of the last processed
\* frame that carries one; tool_calls is absent when no tool call was
\* accumulated; and there is no response while the transport stream has not
\* been exhausted.
C21_StreamedFinishReason ==
    /\ spc = "reading" => sret = NotReturned
    /\ spc = "returned" =>
           /\ sret.kind = "ok"
           /\ sret.response.finish_reason = LastReason
           /\ (hs.tool_calls = <<>>) <=> (sret.response.message.tool_calls = None)

\* The stream has ended after two frames with different finish reasons, and
\* no tool call was accumulated.
C21_Witness ==
    /\ spc = "returned"
    /\ hs.tool_calls = <<>>
    /\ \E i, j \in 1..Len(FramesProcessed) :
           /\ i < j
           /\ FramesProcessed[i].kind = "finish"
           /\ FramesProcessed[j].kind = "finish"
           /\ FramesProcessed[i].reason # FramesProcessed[j].reason

\* The content deltas of the processed frames, in the order of the frames.
DeltasProcessed ==
    LET frames == SelectSeq(FramesProcessed, LAMBDA l : l.kind = "content")
    IN [k \in 1..Len(frames) |-> frames[k].text]

\* C22: within one streamed attempt the callback has been invoked once for
\* every parsed frame that carries a content delta, in the order of the
\* frames, the i-th time with the i-th delta and never with the accumulated
\* text.
C22_CallbackDiscipline ==
    /\ hs.callback = DeltasProcessed
    /\ Concat(hs.callback) = hs.content

\* The callback has been invoked twice, with two different deltas.
C22_Witness ==
    /\ Len(hs.callback) = 2
    /\ hs.callback[1] # hs.callback[2]
    /\ hs.callback = DeltasProcessed

\* The position in the output of execute of the result for call i.
PositionOf(i) == CHOOSE j \in 1..Len(xret) : xret[j].tool_call_id = exec.calls[i].id

\* C30: in the output of ParallelExecutor::execute, with the default
\* call_batch, the results for two calls of one tool name come in the order
\* of the two calls in the input, and the results of one tool name form a
\* contiguous block.
C30_PerGroupOrder ==
    (executor = "parallel" /\ xpc = "returned") =>
        \A i, k \in 1..Len(exec.calls) :
            (i < k /\ exec.calls[i].function.name = exec.calls[k].function.name) =>
                /\ PositionOf(i) < PositionOf(k)
                /\ \A m \in 1..Len(exec.calls) :
                       (PositionOf(i) < PositionOf(m) /\ PositionOf(m) < PositionOf(k)) =>
                           exec.calls[m].function.name = exec.calls[i].function.name

\* Calls to weather, search, weather, both registered: the two weather
\* results came back next to each other and in the order of the calls, the
\* search result in front of them.
C30_Witness ==
    /\ executor = "parallel"
    /\ xpc = "returned"
    /\ registry = {"weather", "search"}
    /\ Len(exec.calls) = 3
    /\ exec.calls[1].function.name = "weather"
    /\ exec.calls[2].function.name = "search"
    /\ exec.calls[3].function.name = "weather"
    /\ PositionOf(2) = 1
    /\ PositionOf(1) = 2
    /\ PositionOf(3) = 3

\* The lines of the body as the endpoint wrote them, the last one included
\* when the body ended before its newline.
LinesBegun ==
    LET begun == SelectSeq(Wire(sent), LAMBDA p : p.part # "tail")
    IN [k \in 1..Len(begun) |-> begun[k].line]

\* handle_stream on the same body delivered one line a chunk.
LineByLine ==
    Feed(StreamStart, [k \in 1..Len(LinesBegun) |-> <<Piece(LinesBegun[k], "whole", FALSE)>>])

\* C37 as claimed: however the transport cut the body into chunks, in the
\* middle of a frame, with several frames in a chunk, with or without a
\* newline behind the last frame, handle_stream returns the response and
\* has called the callback as it does for one line a chunk.
C37_ChunkingIndependence ==
    spc = "returned" =>
        /\ sret = OkResult(StreamResponse(LineByLine))
        /\ hs.callback = LineByLine.callback

----
\* Properties of OpenAIProvider::call with a stream callback (SpecStreamCall).

\* C38 as claimed: when call returns a response, after failed attempts too,
\* the fragments the callback was given since call was entered concatenate
\* to the content of that response.
C38_CallbackUnderRetry ==
    (lpc = "returned" /\ lret.kind = "ok") =>
        Concat(hs.callback) = lret.response.message.content

----
\* Properties of the history stores (SpecHistory).

IsPrefix(a, b) == Len(a) <= Len(b) /\ SubSeq(b, 1, Len(a)) = a

\* C23: get_all of an InfiniteHistory returns every turn added, in the order
\* added; what an earlier get_all returned is a prefix of what a later one
\* returns; and add_batch(ts) leaves the store as add on each element of ts
\* in order does.
C23_InfiniteHistoryContract ==
    /\ [](store.kind = "infinite" =>
              /\ StoreGetAll(store) = added
              /\ IsPrefix(seen, StoreGetAll(store))
              /\ \A a, b \in Turns :
                     /\ StoreAddBatch(store, <<>>) = store
                     /\ StoreAddBatch(store, <<a>>) = StoreAdd(store, a)
                     /\ StoreAddBatch(store, <<a, b>>) = StoreAdd(StoreAdd(store, a), b))
    /\ [][store.kind = "infinite" => IsPrefix(seen, seen')]_vars

\* An InfiniteHistory was read, then given a batch of two turns after other
\* turns, and read again.
C23_Witness ==
    /\ store.kind = "infinite"
    /\ Len(added) = MaxTurns
    /\ added[1] # added[2]
    /\ seen = added

\* The turns a store of capacity n holds of those it was given.
LastOf(n, turns) ==
    IF Len(turns) <= n THEN turns ELSE SubSeq(turns, Len(turns) - n + 1, Len(turns))

\* C24: a CustomHistory of capacity N that was given k turns by add and
\* add_batch holds the last min(N, k) of them, in their order, and never
\* more than N.
C24_BoundedHistoryEvictsOldest ==
    store.kind = "custom" =>
        /\ StoreGetAll(store) = LastOf(store.max, added)
        /\ Len(StoreGetAll(store)) <= store.max

\* A store of capacity 2 was given three turns and has lost the first.
C24_Witness ==
    /\ store.kind = "custom"
    /\ store.max = 2
    /\ Len(added) = 3
    /\ added[1] # added[2]
    /\ added[2] # added[3]
    /\ StoreGetAll(store) = <<added[2], added[3]>>
    /\ seen = <<added[2], added[3]>>

\* Properties of ToolExecutor::add (SpecRegistry).

\* The tool the calls of add in front of the k-th left under this name.
RegisteredBefore(k, name) ==
    LET earlier == {j \in 1..(k - 1) : addlog[j].name = name}
    IN IF earlier = {} THEN NoTool
       ELSE addlog[CHOOSE j \in earlier : \A i \in earlier : i <= j].tool

\* C25: with either executor, add(name, tool) returns the tool registered
\* under the name before, or none when the name was free; afterwards the
\* name holds the tool added last under it, and a name holds nothing the
\* calls of add did not put there.
C25_RegistryAdd ==
    /\ \A k \in 1..Len(addlog) : addlog[k].returned = RegisteredBefore(k, addlog[k].name)
    /\ \A name \in ToolNames : tools[name] = RegisteredBefore(Len(addlog) + 1, name)

\* A sequential executor: a second tool was added under a name that was
\* taken and the first was returned, the other name kept its tool.
C25_Witness ==
    /\ executor = "sequential"
    /\ Len(addlog) = 3
    /\ addlog[1].name = "weather"
    /\ addlog[2].name = "search"
    /\ addlog[3].name = "weather"
    /\ addlog[1].returned = NoTool
    /\ addlog[3].returned = addlog[1].tool
    /\ tools["weather"] = addlog[3].tool
    /\ tools["search"] = addlog[2].tool

\* Properties of the message model and the library functions (Spec, SpecLib).

\* C26 as claimed: an Assistant turn of the history whose tool_calls is
\* absent or an empty sequence is serialized without a tool_calls key, a
\* turn taken from a non-streamed response with an empty tool_calls list
\* included.
C26_AssistantWireForm ==
    \A k \in 1..Len(history) :
        (history[k].role = "assistant" /\ history[k].tool_calls.calls = <<>>) =>
            "tool_calls" \notin DOMAIN ToWire(history[k])

\* The same variant, with the same role, content, tool_call_id and tool calls.
SameMessage(m, parsed) ==
    /\ "role" \in DOMAIN parsed
    /\ IsCustom(parsed) = IsCustom(m)
    /\ parsed.role = m.role
    /\ ~IsCustom(m) =>
           /\ parsed.content = m.content
           /\ parsed.tool_call_id = m.tool_call_id
           /\ parsed.tool_calls = m.tool_calls

\* C27 as claimed: a Message serialized and parsed back is a message of the
\* same variant with the same content, tool_call_id, tool calls and role,
\* whatever the role of a Custom message.
C27_MessageRoundTrip ==
    fn = "from_str" => SameMessage(input.value, output)

\* C28 as claimed: the TOOL_DESCRIPTION of a function whose doc comment has
\* several lines contains every line of it.
C28_DocCommentLines ==
    fn = "tool" =>
        \A k \in 1..Len(input.value) :
            input.value[k].path = "doc" =>
                \E j \in 1..Len(output) : output[j] = input.value[k].text

\* C29 as claimed, the length being the number of characters: the result
\* begins with the characters start .. min(end, length) - 1 of the content,
\* and the suffix "\n\n---\ntruncated [min(end,length)/length chars]" follows
\* if and only if end < length.
C29_TruncateText ==
    fn = "truncate_text" =>
        LET content == input.value.content
            start == input.value.start
            end == input.value.end
            length == Len(content)
            upto == Min(end, length)
        IN /\ output.chars = SubSeq(content, start + 1, upto)
           /\ output.suffix =
                  IF end < length
                  THEN "\n\n---\ntruncated [" \o ToString(upto) \o "/" \o ToString(length)
                       \o " chars]"
                  ELSE ""

====
